---- MODULE Spec2Model ----
(***************************************************************************)
(* Clock, playback dispatch, note lifecycle and external-clock estimator   *)
(* of the MidiLogic control surface (ClockService, PlaybackService,        *)
(* MidiService, SettingsService, LabStateService).                         *)
(*                                                                         *)
(* Time is performance.now() counted in microseconds (Ms microseconds to   *)
(* the millisecond).  Every handler of the program is a function from the  *)
(* program state (a record, see S) to the state it leaves behind; an       *)
(* action commits the result of one whole handler.  Timers (setTimeout)    *)
(* are records in the set timers and fire at or after their due time, at   *)
(* most as late as the specification at hand allows.  Angular effects are  *)
(* flushed by a separate task (Flush) that runs every dirty effect until   *)
(* none is dirty.                                                          *)
(***************************************************************************)
EXTENDS Integers, Sequences, FiniteSets, TLC

VARIABLES
    now,               \* performance.now(), in microseconds
    timers,            \* the pending setTimeout timers
    flushDue,          \* when the pending effect flush was scheduled (NoTime: none)
    clockSettings,     \* SettingsService: settings().clock
    clockState,        \* ClockService._clockState
    lastPulse,         \* ClockService._lastPulse (NoPulse: null)
    intervalId,        \* ClockService.intervalId (NoTimer: null)
    startTime,         \* ClockService.startTime
    pausedTime,        \* ClockService.pausedTime
    lastPulseTime,     \* ClockService.lastPulseTime
    clockEffectDirty,  \* the ClockService constructor effect has to run
    playbackEffectDirty, \* the PlaybackService pulse-listener effect has to run
    playbackEffectReadsLab, \* its last run read noteConfigs() and controlConfigs()
    playbackState,     \* PlaybackService._playbackState
    noteConfigs,       \* LabStateService: labState().noteConfigs
    controlConfigs,    \* LabStateService: labState().controlConfigs
    noteOffTimeouts,   \* MidiService.noteOffTimeouts: noteKey -> timer id
    clockCount,        \* MidiService.clockCount
    lastClockTime,     \* MidiService.lastClockTime
    clockTimes,        \* MidiService.clockTimes
    clockTimeout,      \* MidiService.clockTimeout (NoTimer: null)
    isReceivingClock,  \* MidiService.isReceivingClock
    detectedBPM,       \* MidiService.detectedBPM
    notes,             \* MidiPatternService._notes: the MidiNote instances
    controls,          \* MidiPatternService._controls: the MidiControl instances
    idCounter,         \* MidiPatternService.idCounter
    isDirty,           \* LabStateService._isDirty (hasUnsavedChanges)
    autoSaveTimer,     \* LabStateService.autoSaveTimer (NoTimer: null)
    storage,           \* the lab state the offline storage holds
    saving,            \* the saveState() calls waiting for the storage, in call order
    env,               \* the environment: the external MIDI clock device, ids handed out
    obs                \* observations of what the program has sent and dispatched

vars == << now, timers, flushDue, clockSettings, clockState, lastPulse, intervalId,
           startTime, pausedTime, lastPulseTime, clockEffectDirty, playbackEffectDirty,
           playbackEffectReadsLab, playbackState, noteConfigs, controlConfigs, noteOffTimeouts, clockCount,
           lastClockTime, clockTimes, clockTimeout, isReceivingClock, detectedBPM,
           notes, controls, idCounter, isDirty, autoSaveTimer, storage, saving, env, obs >>

\* ------------------------------------------------------------------ units

\* microseconds per millisecond: performance.now() is a fractional number of ms
Ms == 1000

\* null for a timer handle; window.setTimeout returns positive integers
NoTimer == 0

\* no time recorded
NoTime == -1

\* null for _lastPulse
NoPulse == [timestamp |-> NoTime, beat |-> 0, bar |-> 0, subdivision |-> 0]

Min(a, b) == IF a < b THEN a ELSE b
Max(a, b) == IF a > b THEN a ELSE b

\* Math.round of the non-negative quotient a / b
Round(a, b) == (a \div b) + (IF (a % b) >= b - (a % b) THEN 1 ELSE 0)

\* ------------------------------------------------------------------ state

\* The program state as one record: what a handler reads and returns.
S == [ now |-> now, timers |-> timers, flushDue |-> flushDue,
       clockSettings |-> clockSettings, clockState |-> clockState,
       lastPulse |-> lastPulse, intervalId |-> intervalId,
       startTime |-> startTime, pausedTime |-> pausedTime,
       lastPulseTime |-> lastPulseTime,
       clockEffectDirty |-> clockEffectDirty,
       playbackEffectDirty |-> playbackEffectDirty,
       playbackEffectReadsLab |-> playbackEffectReadsLab,
       playbackState |-> playbackState,
       noteConfigs |-> noteConfigs, controlConfigs |-> controlConfigs,
       noteOffTimeouts |-> noteOffTimeouts,
       clockCount |-> clockCount, lastClockTime |-> lastClockTime,
       clockTimes |-> clockTimes, clockTimeout |-> clockTimeout,
       isReceivingClock |-> isReceivingClock, detectedBPM |-> detectedBPM,
       notes |-> notes, controls |-> controls, idCounter |-> idCounter,
       isDirty |-> isDirty, autoSaveTimer |-> autoSaveTimer,
       storage |-> storage, saving |-> saving,
       env |-> env, obs |-> obs ]

Commit(s) ==
    /\ now' = s.now
    /\ timers' = s.timers
    /\ flushDue' = s.flushDue
    /\ clockSettings' = s.clockSettings
    /\ clockState' = s.clockState
    /\ lastPulse' = s.lastPulse
    /\ intervalId' = s.intervalId
    /\ startTime' = s.startTime
    /\ pausedTime' = s.pausedTime
    /\ lastPulseTime' = s.lastPulseTime
    /\ clockEffectDirty' = s.clockEffectDirty
    /\ playbackEffectDirty' = s.playbackEffectDirty
    /\ playbackEffectReadsLab' = s.playbackEffectReadsLab
    /\ playbackState' = s.playbackState
    /\ noteConfigs' = s.noteConfigs
    /\ controlConfigs' = s.controlConfigs
    /\ noteOffTimeouts' = s.noteOffTimeouts
    /\ clockCount' = s.clockCount
    /\ lastClockTime' = s.lastClockTime
    /\ clockTimes' = s.clockTimes
    /\ clockTimeout' = s.clockTimeout
    /\ isReceivingClock' = s.isReceivingClock
    /\ detectedBPM' = s.detectedBPM
    /\ notes' = s.notes
    /\ controls' = s.controls
    /\ idCounter' = s.idCounter
    /\ isDirty' = s.isDirty
    /\ autoSaveTimer' = s.autoSaveTimer
    /\ storage' = s.storage
    /\ saving' = s.saving
    /\ env' = s.env
    /\ obs' = s.obs

\* ------------------------------------------------------------------ timers

\* The note keys of the model: `${channel}-${note}` as the pair <<channel, note>>.
NoteValues == {36, 38}
ChannelValues == {0, 9}
Keys == ChannelValues \X NoteValues
NoKey == << -1, -1 >>

\* Timer ids in use: pending, or still held in a handle of the program.
UsedIds(s) ==
    {t.id : t \in s.timers} \cup {s.intervalId, s.clockTimeout, s.autoSaveTimer}
        \cup {s.noteOffTimeouts[k] : k \in DOMAIN s.noteOffTimeouts}

\* window.setTimeout returns a fresh positive id (the least unused one here).
NewId(s) == CHOOSE i \in 1..(Cardinality(UsedIds(s)) + 1) : i \notin UsedIds(s)

\* window.setTimeout(callback, delay): the delay is converted to a whole number
\* of milliseconds (WebIDL long).
SetTimeout(s, id, kind, key, delay) ==
    [s EXCEPT !.timers = @ \cup {[id |-> id, kind |-> kind, key |-> key,
                                  due |-> s.now + (delay \div Ms) * Ms]}]

\* clearTimeout / clearInterval (one id pool): no effect on an id not pending
ClearTimeout(s, id) == [s EXCEPT !.timers = {t \in @ : t.id # id}]

Pending(kind) == {t \in timers : t.kind = kind}
PendingFor(s, key) == {t \in s.timers : t.kind = "noteOff" /\ t.key = key}

\* ------------------------------------------------------------------ observations

\* How many dispatches the observation counters tell apart.
MaxTriggers == 6

Sat(n) == Min(n, MaxTriggers)

\* obs records what the program has done, for the properties to speak about:
\*   sounding       the keys with a note-on requested and no note-off since
\*   expectOff      the last playNote call of a key plus its duration, until a note-off
\*                  is requested for the key (NoTime then)
\*   retriggered    the last playNote of a key found a note-off timer pending for it
\*   offsSinceOn    note-offs requested for a key since its last playNote (counted to 2)
\*   offLate        how long after expectOff the last note-off of a key was requested
\*   triggerCount   calls of triggerPlayback (counted to MaxTriggers)
\*   pulseTriggers  calls of triggerPlayback by the pulse listener for the current lastPulse
\*   failedSends    sends since the last dispatch began that found no output
\*                  selected or whose output.send threw (counted to MaxTriggers)
\*   emittedWhilePlaying  the current lastPulse was emitted with the internal source
\*                  and playback enabled and playing
\*   lastTrigger    who called triggerPlayback last, what it sent, the lastPulse
\*                  and clock subdivision at that moment, and the calls of playNote
\*                  and sendControlChange it made, in their order
\*   dispatching    triggerPlayback is on the call stack
\*   calls          the calls of playNote and sendControlChange made so far by the
\*                  triggerPlayback on the call stack
\*   sentFor        the instances (kind and id) the last dispatch (triggerPlayback,
\*                  playAllNotes, sendAllControls) sent something for, in order
\*   sentFlip       changes with every dispatch
\*   deleted        the instances (kind and id) deleted so far
\*   quarterFlip    changes with every 'midiQuarterNote' event
\*   expired        the watchdog of the external clock has expired at least once
\*   ticksSinceExpiry  clock ticks handled since the last expiry (counted to 25)
ObsInit ==
    [ sounding |-> {},
      expectOff |-> [k \in Keys |-> NoTime],
      retriggered |-> [k \in Keys |-> FALSE],
      offsSinceOn |-> [k \in Keys |-> 0],
      offLate |-> [k \in Keys |-> 0],
      triggerCount |-> 0,
      pulseTriggers |-> 0,
      emittedWhilePlaying |-> FALSE,
      lastTrigger |-> [src |-> "none", at |-> NoTime, noteCount |-> 0, controlCount |-> 0,
                       pulse |-> NoPulse, subdivision |-> 0, calls |-> << >>],
      dispatching |-> FALSE,
      calls |-> << >>,
      sentFor |-> << >>,
      sentFlip |-> FALSE,
      deleted |-> {},
      quarterFlip |-> FALSE,
      expired |-> FALSE,
      ticksSinceExpiry |-> 0,
      controlsSent |-> 0,
      failedSends |-> 0 ]

\* a dispatch begins
Dispatching(s) ==
    [s EXCEPT !.obs.sentFor = << >>, !.obs.sentFlip = ~@, !.obs.failedSends = 0]

\* The MIDI output as a send finds it (env.output): "ok" when an output is
\* selected and output.send(message) succeeds, "none" when selectedOutput() is
\* null, "throws" when output.send throws.  A send that fails returns after the
\* console.warn, or after its catch block, with nothing sent.
SendFailed(s) == [s EXCEPT !.obs.failedSends = Sat(@ + 1)]

\* the dispatch under way has sent something for this instance
SentFor(s, kind, id) == [s EXCEPT !.obs.sentFor = Append(@, << kind, id >>)]

\* this instance was deleted
Deleted(s, kind, id) == [s EXCEPT !.obs.deleted = @ \cup {<< kind, id >>}]

\* a call of a MidiService method is noted while triggerPlayback is on the call stack
Logged(s, call) ==
    IF s.obs.dispatching THEN [s EXCEPT !.obs.calls = Append(@, call)] ELSE s

\* ------------------------------------------------------------------ MidiService: notes

\* sendNoteOn(note, velocity, channel): the note-on request to the transport
sendNoteOn(s, note, velocity, channel) ==
    LET k == << channel, note >> IN
    IF s.env.output # "ok" THEN SendFailed(s) ELSE
    [s EXCEPT !.obs.sounding = @ \cup {k},
              !.obs.offsSinceOn[k] = 0,
              !.obs.offLate[k] = 0]

\* sendNoteOff(note, channel): the note-off request to the transport
sendNoteOff(s, note, channel) ==
    LET k == << channel, note >> IN
    IF s.env.output # "ok" THEN SendFailed(s) ELSE
    [s EXCEPT !.obs.sounding = @ \ {k},
              !.obs.offsSinceOn[k] = Min(@ + 1, 2),
              !.obs.offLate[k] = IF s.obs.expectOff[k] = NoTime THEN 0
                                 ELSE s.now - s.obs.expectOff[k],
              !.obs.expectOff[k] = NoTime]

\* sendControlChange(controller, value, channel)
sendControlChange(s, controller, value, channel) ==
    LET s0 == Logged(s, << "sendControlChange", controller, value, channel >>)
    IN  IF s.env.output # "ok" THEN SendFailed(s0)
        ELSE [s0 EXCEPT !.obs.controlsSent = Sat(@ + 1)]

\* ClearExisting without the clearTimeout: the earlier timer stays armed
ClearExisting_NoClear(s, noteKey) == s

\* the part of playNote that clears the timeout recorded for the key
ClearExisting(s, noteKey) ==
    IF noteKey \in DOMAIN s.noteOffTimeouts /\ s.noteOffTimeouts[noteKey] # 0
    THEN ClearTimeout(s, s.noteOffTimeouts[noteKey])
    ELSE s

\* Map.set(noteKey, timeoutId)
MapSet(m, k, v) == [x \in (DOMAIN m) \cup {k} |-> IF x = k THEN v ELSE m[x]]

\* Map.delete(noteKey)
MapDelete(m, k) == [x \in (DOMAIN m) \ {k} |-> m[x]]

\* playNote(note, velocity, channel, duration)
playNote(s, note, velocity, channel, duration) ==
    LET noteKey == << channel, note >>
        s0 == Logged(s, << "playNote", note, velocity, channel, duration >>)
        s1 == [sendNoteOn(s0, note, velocity, channel) EXCEPT
                  !.obs.expectOff[noteKey] = s.now + duration,
                  !.obs.retriggered[noteKey] = (PendingFor(s, noteKey) # {})]
        s2 == ClearExisting(s1, noteKey)
        timeoutId == NewId(s2)
        s3 == SetTimeout(s2, timeoutId, "noteOff", noteKey, duration)
    IN  [s3 EXCEPT !.noteOffTimeouts = MapSet(@, noteKey, timeoutId)]

\* noteOffCallback without the noteOffTimeouts.delete(noteKey)
noteOffCallback_NoDelete(s, t) == sendNoteOff(s, t.key[2], t.key[1])

\* the callback of the note-off timer t
noteOffCallback(s, t) ==
    LET s1 == sendNoteOff(s, t.key[2], t.key[1])
    IN  [s1 EXCEPT !.noteOffTimeouts = MapDelete(@, t.key)]

\* stopAllNotes(): every recorded timeout is cleared, the map is emptied and
\* All Notes Off goes out on the 16 channels
stopAllNotes(s) ==
    LET ids == {s.noteOffTimeouts[k] : k \in DOMAIN s.noteOffTimeouts} IN
    [s EXCEPT !.timers = {t \in @ : t.id \notin ids},
              !.noteOffTimeouts = << >>,
              !.obs.sounding = {}]


\* ------------------------------------------------------------------ signals and effects

\* A flush of the effects is scheduled when an effect is first marked dirty.
ScheduleFlush(s) == IF s.flushDue = NoTime THEN [s EXCEPT !.flushDue = s.now] ELSE s

\* settings().clock was replaced: both effects read clockSettings()
ClockSettingsChanged(s) ==
    ScheduleFlush([s EXCEPT !.clockEffectDirty = TRUE, !.playbackEffectDirty = TRUE])

\* _clockState was replaced: both effects read clockState()
ClockStateChanged(s) ==
    ScheduleFlush([s EXCEPT !.clockEffectDirty = TRUE, !.playbackEffectDirty = TRUE])

\* _lastPulse, or the value of isPlaying() / isEnabled(), changed: the pulse listener reads them
PlaybackInputChanged(s) == ScheduleFlush([s EXCEPT !.playbackEffectDirty = TRUE])

\* scheduleAutoSave(): the pending auto-save timer is cleared and, with
\* globalSettings.autoSave (true in every lab state of the model), a new one
\* is armed AUTO_SAVE_DELAY = 2000 ms ahead
scheduleAutoSave(s) ==
    LET s1 == IF s.autoSaveTimer # NoTimer THEN ClearTimeout(s, s.autoSaveTimer) ELSE s
        id == NewId(s1)
    IN  [SetTimeout(s1, id, "autoSave", NoKey, 2000 * Ms) EXCEPT !.autoSaveTimer = id]

\* the lab state as saveState() reads it: const state = this._labState()
LabSnapshot(s) == [noteConfigs |-> s.noteConfigs, controlConfigs |-> s.controlConfigs]

\* saveState() up to its first await: the state is read and the call waits for
\* the storage (offlineStorage.getLabState, then updateLabState)
saveStateBegins(s) ==
    [s EXCEPT !.saving = Append(@, [state |-> LabSnapshot(s), written |-> FALSE])]

\* the storage writes the state the i-th waiting call handed over
saveStateWrites(s, i) ==
    [s EXCEPT !.storage = s.saving[i].state, !.saving[i].written = TRUE]

\* saveState() after its awaits: isDirty is cleared and the auto-save timer
\* cancelled
saveStateCompletes(s, i) ==
    LET s1 == [s EXCEPT !.isDirty = FALSE]
        s2 == IF s1.autoSaveTimer # NoTimer
              THEN [ClearTimeout(s1, s1.autoSaveTimer) EXCEPT !.autoSaveTimer = NoTimer]
              ELSE s1
    IN  [s2 EXCEPT !.saving = SubSeq(@, 1, i - 1) \o SubSeq(@, i + 1, Len(@))]

\* the callback of the auto-save timer
autoSaveCallback(s) == saveStateBegins(s)

\* LabStateService.updateState: _labState is set.  The pulse listener is
\* notified if its last run went through triggerPlayback, which reads
\* noteConfigs() and controlConfigs() inside the effect.
updateState(s) ==
    LET s1 == IF s.playbackEffectReadsLab THEN PlaybackInputChanged(s) ELSE s
    IN  scheduleAutoSave([s1 EXCEPT !.isDirty = TRUE])

\* ------------------------------------------------------------------ SettingsService

\* updateClockSettings(updates): a new clock object, whatever the updates are
updateClockSettings(s, field, value) ==
    ClockSettingsChanged([s EXCEPT !.clockSettings[field] = value])

\* setBpm clamping a value out of range into it
settingsSetBpmTenths_Clamp(s, tenths) ==
    updateClockSettings(s, "bpm", Round(Max(600, Min(2000, tenths)), 10))

\* SettingsService.setBpm(bpm) for a bpm given in tenths, so that fractions of a
\* bpm are arguments too: out of [60, 200] ignored, else Math.round(bpm) stored
settingsSetBpmTenths(s, tenths) ==
    IF tenths < 600 \/ tenths > 2000 THEN s
    ELSE updateClockSettings(s, "bpm", Round(tenths, 10))

\* SettingsService.setBpm(bpm) for a whole bpm
settingsSetBpm(s, bpm) == settingsSetBpmTenths(s, 10 * bpm)

\* ClockService.currentBpm: computed(() => settingsService.currentBpm())
currentBpm(s) == s.clockSettings.bpm

startClock(s) == updateClockSettings(s, "isRunning", TRUE)
stopClock(s) == updateClockSettings(s, "isRunning", FALSE)
toggleClock(s) == updateClockSettings(s, "isRunning", ~s.clockSettings.isRunning)

\* setClockSource(source)
setClockSource(s, source) ==
    LET s1 == IF s.clockSettings.isRunning THEN stopClock(s) ELSE s
    IN  updateClockSettings(s1, "source", source)

\* ------------------------------------------------------------------ ClockService

\* millisecondsPerBeat, in microseconds
millisecondsPerBeat(s) ==
    LET bpm == s.clockSettings.bpm IN
    IF bpm <= 0 \/ bpm > 1000 THEN (60000 * Ms) \div 120 ELSE (60000 * Ms) \div bpm

\* millisecondsPerSubdivision dividing the beat by the subdivision itself
millisecondsPerSubdivision_NoQuarter(s) ==
    LET subdivision == s.clockState.subdivision
        result == millisecondsPerBeat(s) \div subdivision
    IN  IF subdivision <= 0 \/ subdivision > 64 THEN millisecondsPerBeat(s) \div 4
        ELSE IF result < 5 * Ms THEN 5 * Ms
        ELSE result

\* millisecondsPerSubdivision, in microseconds: millisecondsPerBeat / (subdivision / 4)
millisecondsPerSubdivision(s) ==
    LET subdivision == s.clockState.subdivision
        result == (millisecondsPerBeat(s) * 4) \div subdivision
    IN  IF subdivision <= 0 \/ subdivision > 64 THEN millisecondsPerBeat(s) \div 4
        ELSE IF result < 5 * Ms THEN 5 * Ms
        ELSE result

\* this.isRunning()
isRunning(s) == s.clockState.isRunning

\* the delay scheduleNextPulse asks setTimeout for
nextPulseDelay(s) ==
    LET timeSinceLastPulse == s.now - s.lastPulseTime
        subdivisionInterval == millisecondsPerSubdivision(s)
        d0 == subdivisionInterval - (timeSinceLastPulse % subdivisionInterval)
        d1 == Max(Max(d0, 10 * Ms), 5 * Ms)
    IN  IF subdivisionInterval < 5 * Ms THEN 5 * Ms ELSE d1

\* scheduleNextPulse(): arms the pulse timer
scheduleNextPulse(s) ==
    IF ~isRunning(s) THEN s
    ELSE LET id == NewId(s)
             s1 == SetTimeout(s, id, "pulse", NoKey, nextPulseDelay(s))
         IN  [s1 EXCEPT !.intervalId = id]

\* pulsePosition with the time since the last pulse in place of the time since
\* the start
pulsePosition_SinceLastPulse(s) ==
    LET subdivisionInterval == millisecondsPerSubdivision(s)
        elapsedTime == s.now - s.lastPulseTime
        totalSubdivisions == elapsedTime \div subdivisionInterval
        subdivisionsPerBeat == s.clockState.subdivision \div 4
        subdivisionsPerBar == subdivisionsPerBeat * s.clockState.beatsPerBar
    IN  [ timestamp |-> s.now,
          beat |-> ((totalSubdivisions \div subdivisionsPerBeat) % s.clockState.beatsPerBar) + 1,
          bar |-> (totalSubdivisions \div subdivisionsPerBar) + 1,
          subdivision |-> (totalSubdivisions % subdivisionsPerBeat) + 1 ]

\* the position generatePulse computes from the elapsed time
pulsePosition(s) ==
    LET subdivisionInterval == millisecondsPerSubdivision(s)
        elapsedTime == s.now - s.startTime
        totalSubdivisions == elapsedTime \div subdivisionInterval
        subdivisionsPerBeat == s.clockState.subdivision \div 4
        subdivisionsPerBar == subdivisionsPerBeat * s.clockState.beatsPerBar
    IN  [ timestamp |-> s.now,
          beat |-> ((totalSubdivisions \div subdivisionsPerBeat) % s.clockState.beatsPerBar) + 1,
          bar |-> (totalSubdivisions \div subdivisionsPerBar) + 1,
          subdivision |-> (totalSubdivisions % subdivisionsPerBeat) + 1 ]

\* generatePulse()
generatePulse(s) ==
    IF millisecondsPerSubdivision(s) < 5 * Ms THEN s
    ELSE LET pulse == pulsePosition(s)
             s1 == IF s.clockState.currentBeat # pulse.beat \/ s.clockState.currentBar # pulse.bar
                   THEN ClockStateChanged([s EXCEPT !.clockState.currentBeat = pulse.beat,
                                                    !.clockState.currentBar = pulse.bar])
                   ELSE s
         IN  PlaybackInputChanged([s1 EXCEPT !.lastPulse = pulse,
                                             !.lastPulseTime = s.now,
                                             !.obs.pulseTriggers = 0,
                                             !.obs.emittedWhilePlaying =
                                                 /\ s.clockSettings.source = "internal"
                                                 /\ s.playbackState.isEnabled
                                                 /\ s.playbackState.isPlaying])

\* the callback of the pulse timer
pulseCallback(s) ==
    IF isRunning(s) THEN scheduleNextPulse(generatePulse(s)) ELSE s

\* startInternalClock counting from now, whatever pausedTime holds
startInternalClock_FromNow(s) ==
    LET s1 == IF s.intervalId # NoTimer THEN ClearTimeout(s, s.intervalId) ELSE s
        s2 == [s1 EXCEPT !.startTime = s.now,
                         !.lastPulseTime = s.now]
        s3 == ClockStateChanged([s2 EXCEPT !.clockState.isRunning = TRUE])
    IN  scheduleNextPulse(s3)

\* startInternalClock()
startInternalClock(s) ==
    LET s1 == IF s.intervalId # NoTimer THEN ClearTimeout(s, s.intervalId) ELSE s
        s2 == [s1 EXCEPT !.startTime = s.now - s.pausedTime,
                         !.lastPulseTime = s.now - s.pausedTime]
        s3 == ClockStateChanged([s2 EXCEPT !.clockState.isRunning = TRUE])
    IN  scheduleNextPulse(s3)

\* stopInternalClock()
stopInternalClock(s) ==
    LET s1 == IF s.intervalId # NoTimer
              THEN [ClearTimeout(s, s.intervalId) EXCEPT !.intervalId = NoTimer]
              ELSE s
        s2 == [s1 EXCEPT !.pausedTime = s.now - s.startTime]
    IN  ClockStateChanged([s2 EXCEPT !.clockState.isRunning = FALSE])

\* updateClockTiming arming the new timer and leaving the pending one alone
updateClockTiming_NoClear(s) ==
    IF isRunning(s) /\ s.clockSettings.source = "internal"
    THEN scheduleNextPulse(s)
    ELSE s

\* updateClockTiming counting the clock from now again
updateClockTiming_Restart(s) ==
    IF isRunning(s) /\ s.clockSettings.source = "internal"
    THEN LET s1 == IF s.intervalId # NoTimer THEN ClearTimeout(s, s.intervalId) ELSE s
         IN  scheduleNextPulse([s1 EXCEPT !.startTime = s.now,
                                          !.lastPulseTime = s.now])
    ELSE s

\* updateClockTiming(): reschedules the next pulse
updateClockTiming(s) ==
    IF isRunning(s) /\ s.clockSettings.source = "internal"
    THEN LET s1 == IF s.intervalId # NoTimer
                   THEN [ClearTimeout(s, s.intervalId) EXCEPT !.intervalId = NoTimer]
                   ELSE s
         IN  scheduleNextPulse(s1)
    ELSE s

\* the constructor effect without its stop branch
clockEffect_NoStop(s) ==
    LET s0 == [s EXCEPT !.clockEffectDirty = FALSE]
        s1 == IF s.clockSettings.isRunning /\ ~s.clockState.isRunning
                 /\ s.clockSettings.source = "internal"
              THEN startInternalClock(s0)
              ELSE s0
    IN  IF s.clockState.isRunning /\ s.clockSettings.source = "internal"
        THEN updateClockTiming(s1)
        ELSE s1

\* One run of the constructor effect.  currentState is the clock state read at
\* the start of the run.
clockEffect(s) ==
    LET s0 == [s EXCEPT !.clockEffectDirty = FALSE]
        clockSettingsRead == s.clockSettings
        currentState == s.clockState
        s1 == IF clockSettingsRead.isRunning /\ ~currentState.isRunning
              THEN (IF clockSettingsRead.source = "internal" THEN startInternalClock(s0) ELSE s0)
              ELSE IF ~clockSettingsRead.isRunning /\ currentState.isRunning
              THEN stopInternalClock(s0)
              ELSE s0
    IN  IF currentState.isRunning /\ clockSettingsRead.source = "internal"
        THEN updateClockTiming(s1)
        ELSE s1

\* ClockService.start()
start(s) ==
    IF s.clockSettings.source = "internal" THEN startClock(s)
    ELSE startClock(ClockStateChanged([s EXCEPT !.clockState.isRunning = TRUE]))

\* ClockService.stop()
stop(s) == stopClock(s)

\* ClockService.reset()
reset(s) ==
    LET s1 == ClockStateChanged([stop(s) EXCEPT !.clockState.currentBeat = 1,
                                                !.clockState.currentBar = 1])
    IN  [s1 EXCEPT !.pausedTime = 0]

\* ClockService.setBpm(bpm)
setBpm(s, bpm) == settingsSetBpm(s, bpm)

\* setBeatsPerBar checking the lower bound only
setBeatsPerBar_NoUpperBound(s, beats) ==
    IF beats >= 1
    THEN ClockStateChanged([s EXCEPT !.clockState.beatsPerBar = beats])
    ELSE s

\* ClockService.setBeatsPerBar(beats)
setBeatsPerBar(s, beats) ==
    IF beats >= 1 /\ beats <= 16
    THEN ClockStateChanged([s EXCEPT !.clockState.beatsPerBar = beats])
    ELSE s

\* ClockService.setSubdivision(subdivision)
setSubdivision(s, subdivision) ==
    IF subdivision \in {4, 8, 16, 32}
    THEN LET s1 == ClockStateChanged([s EXCEPT !.clockState.subdivision = subdivision])
         IN  IF isRunning(s1) THEN updateClockTiming(s1) ELSE s1
    ELSE s

\* handleMidiClockStart()
handleMidiClockStart(s) ==
    IF s.clockSettings.source = "external"
    THEN [ClockStateChanged([s EXCEPT !.clockState.isRunning = TRUE])
             EXCEPT !.startTime = s.now, !.pausedTime = 0]
    ELSE s

\* handleMidiClockStop acting whatever the source is
handleMidiClockStop_AnySource(s) ==
    [ClockStateChanged([s EXCEPT !.clockState.isRunning = FALSE])
        EXCEPT !.pausedTime = s.now - s.startTime]

\* handleMidiClockStop()
handleMidiClockStop(s) ==
    IF s.clockSettings.source = "external"
    THEN [ClockStateChanged([s EXCEPT !.clockState.isRunning = FALSE])
             EXCEPT !.pausedTime = s.now - s.startTime]
    ELSE s

\* handleMidiClockPulse()
handleMidiClockPulse(s) ==
    IF s.clockSettings.source = "external" /\ isRunning(s) THEN generatePulse(s) ELSE s


\* ------------------------------------------------------------------ LabStateService

\* [...configs, newConfig]
addConfig(configs, newConfig) == Append(configs, newConfig)

\* configs.map(config => config.id === id ? { ...config, ...updates } : config)
updateConfig(configs, id, updates) ==
    [i \in 1..Len(configs) |->
        IF configs[i].id = id
        THEN [f \in DOMAIN configs[i] |->
                 IF f \in DOMAIN updates THEN updates[f] ELSE configs[i][f]]
        ELSE configs[i]]

\* removal by position, the last config going when the id is not found
removeConfig_Pop(configs, id) ==
    IF \E i \in 1..Len(configs) : configs[i].id = id
    THEN SelectSeq(configs, LAMBDA c : c.id # id)
    ELSE SubSeq(configs, 1, Len(configs) - 1)

\* configs.filter(config => config.id !== id)
removeConfig(configs, id) == SelectSeq(configs, LAMBDA c : c.id # id)

\* the filter of triggerPlayback letting every config through
enabledConfigs_All(configs) == configs

\* configs.filter(config => config.enabled)
enabledConfigs(configs) == SelectSeq(configs, LAMBDA c : c.enabled)

\* ------------------------------------------------------------------ MidiPatternService

\* undefined, for a lookup that finds nothing
Undefined == [id |-> 0]

\* Math.max(lo, Math.min(hi, v)) of the setters
Clamp(lo, hi, v) == Max(lo, Min(hi, v))

\* new MidiNote(id, note, velocity, channel, onDelete): the constructor sets the
\* three signals to its arguments as they are
MidiNote(id, note, velocity, channel) ==
    [id |-> id, note |-> note, velocity |-> velocity, channel |-> channel]

\* new MidiControl(id, controller, value, channel, onDelete)
MidiControl(id, controller, value, channel) ==
    [id |-> id, controller |-> controller, value |-> value, channel |-> channel]

\* createNote(note, velocity, channel); generateId() counts idCounter up
createNote(s, note, velocity, channel) ==
    [s EXCEPT !.idCounter = @ + 1,
              !.notes = Append(@, MidiNote(s.idCounter + 1, note, velocity, channel))]

\* createControl(controller, value, channel)
createControl(s, controller, value, channel) ==
    [s EXCEPT !.idCounter = @ + 1,
              !.controls = Append(@, MidiControl(s.idCounter + 1, controller, value,
                                                 channel))]

\* a setter of the instance with this id, for an instance the registry holds
SetField(instances, id, field, value) ==
    [i \in 1..Len(instances) |->
        IF instances[i].id = id THEN [instances[i] EXCEPT ![field] = value]
        ELSE instances[i]]

\* MidiNote.setNote / setVelocity / setChannel
setNote(s, id, note) ==
    [s EXCEPT !.notes = SetField(@, id, "note", Clamp(0, 127, note))]

setVelocity(s, id, velocity) ==
    [s EXCEPT !.notes = SetField(@, id, "velocity", Clamp(1, 127, velocity))]

setChannel(s, id, channel) ==
    [s EXCEPT !.notes = SetField(@, id, "channel", Clamp(0, 15, channel))]

\* MidiControl.setController / setValue / setChannel
setController(s, id, controller) ==
    [s EXCEPT !.controls = SetField(@, id, "controller", Clamp(0, 127, controller))]

setValue(s, id, value) ==
    [s EXCEPT !.controls = SetField(@, id, "value", Clamp(0, 127, value))]

controlSetChannel(s, id, channel) ==
    [s EXCEPT !.controls = SetField(@, id, "channel", Clamp(0, 15, channel))]

\* deleteNoteById leaving the registry as it is
deleteNoteById_Keep(s, id) == Deleted(s, "note", id)

\* MidiNote.delete() -> onDelete(id) -> deleteNoteById(id)
deleteNoteById(s, id) ==
    Deleted([s EXCEPT !.notes = SelectSeq(@, LAMBDA n : n.id # id)], "note", id)

\* MidiControl.delete() -> onDelete(id) -> deleteControlById(id)
deleteControlById(s, id) ==
    Deleted([s EXCEPT !.controls = SelectSeq(@, LAMBDA c : c.id # id)], "control", id)

\* Array.find by id: the first match, or undefined
FindById(instances, id) ==
    LET found == SelectSeq(instances, LAMBDA x : x.id = id)
    IN  IF found = << >> THEN Undefined ELSE Head(found)

\* getNoteById(id) / getControlById(id)
getNoteById(s, id) == FindById(s.notes, id)

getControlById(s, id) == FindById(s.controls, id)

\* MidiPatternService.playNote(noteInstance, duration)
patternPlayNote(s, noteInstance, duration) ==
    playNote(s, noteInstance.note, noteInstance.velocity, noteInstance.channel, duration)

\* MidiPatternService.sendControl(controlInstance)
sendControl(s, controlInstance) ==
    sendControlChange(s, controlInstance.controller, controlInstance.value,
                      controlInstance.channel)

RECURSIVE playEach(_, _, _)
\* notes.forEach(note => this.playNote(note, duration))
playEach(s, instances, duration) ==
    IF instances = << >> THEN s
    ELSE playEach(SentFor(patternPlayNote(s, Head(instances), duration),
                          "note", Head(instances).id),
                  Tail(instances), duration)

\* playAllNotes(duration)
playAllNotes(s, duration) == playEach(Dispatching(s), s.notes, duration)

RECURSIVE sendEach(_, _)
\* controls.forEach(control => this.sendControl(control))
sendEach(s, instances) ==
    IF instances = << >> THEN s
    ELSE sendEach(SentFor(sendControl(s, Head(instances)), "control", Head(instances).id),
                  Tail(instances))

\* sendAllControls()
sendAllControls(s) == sendEach(Dispatching(s), s.controls)

\* ------------------------------------------------------------------ PlaybackService

RECURSIVE playAll_NoteOnOnly(_, _)
\* playAll sending the note-ons by themselves, with no note-off scheduled
playAll_NoteOnOnly(s, configs) ==
    IF configs = << >> THEN s
    ELSE playAll_NoteOnOnly(sendNoteOn(s, Head(configs).note, Head(configs).velocity,
                                       Head(configs).channel),
                            Tail(configs))

RECURSIVE playAll_StopAtFailure(_, _)
\* playAll giving up at the first note whose send fails
playAll_StopAtFailure(s, configs) ==
    IF configs = << >> \/ s.env.output # "ok" THEN s
    ELSE playAll_StopAtFailure(SentFor(playNote(s, Head(configs).note, Head(configs).velocity,
                                                Head(configs).channel, 100 * Ms),
                                       "noteConfig", Head(configs).id),
                               Tail(configs))

RECURSIVE playAll(_, _)
\* enabledNoteConfigs.forEach(config => playNote(note, velocity, channel, 100))
playAll(s, configs) ==
    IF configs = << >> THEN s
    ELSE playAll(SentFor(playNote(s, Head(configs).note, Head(configs).velocity,
                                  Head(configs).channel, 100 * Ms),
                         "noteConfig", Head(configs).id),
                 Tail(configs))

RECURSIVE sendAll(_, _)
\* enabledControlConfigs.forEach(config => sendControlChange(controller, value, channel))
sendAll(s, configs) ==
    IF configs = << >> THEN s
    ELSE sendAll(SentFor(sendControlChange(s, Head(configs).controller,
                                           Head(configs).value, Head(configs).channel),
                         "controlConfig", Head(configs).id),
                 Tail(configs))

\* triggerPlayback(); src names the caller for the observations
triggerPlayback(s, src) ==
    LET enabledNoteConfigs == enabledConfigs(s.noteConfigs)
        enabledControlConfigs == enabledConfigs(s.controlConfigs)
        s1 == [Dispatching(s) EXCEPT !.playbackState.lastTriggerTime = s.now,
                                     !.obs.dispatching = TRUE]
        s2 == sendAll(playAll(s1, enabledNoteConfigs), enabledControlConfigs)
    IN  [s2 EXCEPT !.obs.triggerCount = Sat(@ + 1),
                   !.obs.pulseTriggers = IF src = "pulse" THEN Sat(@ + 1) ELSE @,
                   !.obs.lastTrigger = [src |-> src, at |-> s.now,
                                        noteCount |-> Len(enabledNoteConfigs),
                                        controlCount |-> Len(enabledControlConfigs),
                                        pulse |-> s.lastPulse,
                                        subdivision |-> s.clockState.subdivision,
                                        calls |-> s2.obs.calls],
                   !.obs.dispatching = FALSE,
                   !.obs.calls = << >>]

\* the pulse listener without its quarter-note gate
shouldTrigger_EveryPulse(pulse, subdivision) == TRUE

\* the quarter-note gate of the pulse listener
shouldTrigger(pulse, subdivision) ==
    LET subdivisionsPerQuarterNote == Max(1, subdivision \div 4)
    IN  (pulse.subdivision - 1) % subdivisionsPerQuarterNote = 0

\* One run of the pulse-listener effect (setupClockPulseListener).  The signals
\* read during the run are the ones the effect depends on afterwards.
pulseListener(s) ==
    LET triggers == /\ s.lastPulse # NoPulse
                    /\ s.clockSettings.source = "internal"
                    /\ s.clockState.isRunning
                    /\ s.playbackState.isPlaying
                    /\ s.playbackState.isEnabled
                    /\ shouldTrigger(s.lastPulse, s.clockState.subdivision)
        s0 == [s EXCEPT !.playbackEffectDirty = FALSE,
                        !.playbackEffectReadsLab = triggers]
    IN  IF triggers THEN triggerPlayback(s0, "pulse") ELSE s0

\* the 'midiQuarterNote' listener (setupMidiQuarterNoteListener)
quarterNoteListener(s) ==
    IF s.playbackState.isPlaying /\ s.playbackState.isEnabled
    THEN triggerPlayback(s, "quarterNote")
    ELSE s

\* _playbackState.update: the effect is notified when isPlaying() or isEnabled() changes
setPlaybackFlags(s, playing, enabled) ==
    LET s1 == [s EXCEPT !.playbackState.isPlaying = playing,
                        !.playbackState.isEnabled = enabled]
    IN  IF playing # s.playbackState.isPlaying \/ enabled # s.playbackState.isEnabled
        THEN PlaybackInputChanged(s1)
        ELSE s1

enablePlayback(s) == setPlaybackFlags(s, s.playbackState.isPlaying, TRUE)

\* disablePlayback clearing isEnabled only
disablePlayback_KeepPlaying(s) == setPlaybackFlags(s, s.playbackState.isPlaying, FALSE)

disablePlayback(s) == setPlaybackFlags(s, FALSE, FALSE)

startPlayback(s) ==
    IF ~s.playbackState.isEnabled THEN s
    ELSE LET s1 == setPlaybackFlags(s, TRUE, s.playbackState.isEnabled)
         IN  IF s1.clockSettings.source = "internal" /\ ~isRunning(s1)
             THEN start(s1)
             ELSE s1

stopPlayback(s) == setPlaybackFlags(s, FALSE, s.playbackState.isEnabled)

togglePlayback(s) == IF s.playbackState.isPlaying THEN stopPlayback(s) ELSE startPlayback(s)

\* manualTrigger without the test of isEnabled
manualTrigger_Ungated(s) == triggerPlayback(s, "manual")

manualTrigger(s) == IF s.playbackState.isEnabled THEN triggerPlayback(s, "manual") ELSE s

\* playbackStatus reading the running flag of the settings for the clock's
playbackStatus_FromSettings(s) ==
    IF ~s.playbackState.isEnabled THEN << "DISABLED" >>
    ELSE IF ~s.playbackState.isPlaying THEN << "STOPPED" >>
    ELSE IF s.clockSettings.source = "external"
         THEN IF s.isReceivingClock
              THEN << "PLAYING (SYNCED ", s.detectedBPM, " BPM)" >>
              ELSE << "WAITING FOR MIDI CLOCK" >>
         ELSE IF s.clockSettings.isRunning
              THEN << "PLAYING (", currentBpm(s), " BPM)" >>
              ELSE << "CLOCK STOPPED" >>

\* playbackStatus: the computed status text, as the sequence of its pieces
\* (a template literal is the sequence of its texts and interpolated values)
playbackStatus(s) ==
    IF ~s.playbackState.isEnabled THEN << "DISABLED" >>
    ELSE IF ~s.playbackState.isPlaying THEN << "STOPPED" >>
    ELSE IF s.clockSettings.source = "external"
         THEN IF s.isReceivingClock
              THEN << "PLAYING (SYNCED ", s.detectedBPM, " BPM)" >>
              ELSE << "WAITING FOR MIDI CLOCK" >>
         ELSE IF isRunning(s)
              THEN << "PLAYING (", currentBpm(s), " BPM)" >>
              ELSE << "CLOCK STOPPED" >>

\* ------------------------------------------------------------------ effect flush

RECURSIVE flushEffects(_)
\* The flush of the root effects: the dirty effects run in the order of their
\* creation (ClockService's before PlaybackService's), again until none is dirty.
flushEffects(s) ==
    IF ~s.clockEffectDirty /\ ~s.playbackEffectDirty THEN [s EXCEPT !.flushDue = NoTime]
    ELSE LET s1 == IF s.clockEffectDirty THEN clockEffect(s) ELSE s
             s2 == IF s1.playbackEffectDirty THEN pulseListener(s1) ELSE s1
         IN  flushEffects(s2)

\* ------------------------------------------------------------------ MidiService: external clock

Sum(seq) == LET RECURSIVE Add(_) 
                Add(i) == IF i = 0 THEN 0 ELSE seq[i] + Add(i - 1)
            IN  Add(Len(seq))

\* the BPM of the interval window: Math.round(60000 / (avgInterval * 24))
windowBpm(times) == Round(60000 * Ms * Len(times), Sum(times) * 24)

\* the watchdog clearing the receiving flag and keeping the estimate
watchdogCallback_KeepBpm(s) ==
    [s EXCEPT !.isReceivingClock = FALSE,
              !.obs.expired = TRUE, !.obs.ticksSinceExpiry = 0]

\* the callback of the watchdog timer
watchdogCallback(s) ==
    [s EXCEPT !.isReceivingClock = FALSE, !.detectedBPM = 0,
              !.obs.expired = TRUE, !.obs.ticksSinceExpiry = 0]

\* onQuarterNote(): the 'midiQuarterNote' event, dispatched to its listeners at once
onQuarterNote(s) == [quarterNoteListener(s) EXCEPT !.obs.quarterFlip = ~@]

\* handleMidiClock arming a new watchdog and leaving the previous one pending
handleMidiClock_NoClear(s) ==
    LET pushed == Append(s.clockTimes, s.now - s.lastClockTime)
        window == IF Len(pushed) > 24 THEN Tail(pushed) ELSE pushed
        s1 == IF s.lastClockTime > 0
              THEN [s EXCEPT !.clockTimes = window,
                             !.detectedBPM = IF Len(window) >= 24 THEN windowBpm(window) ELSE @]
              ELSE s
        s2 == [s1 EXCEPT !.lastClockTime = s.now,
                         !.clockCount = @ + 1,
                         !.isReceivingClock = TRUE,
                         !.obs.ticksSinceExpiry = Min(@ + 1, 25)]
        s3 == IF s2.clockCount % 24 = 0 THEN onQuarterNote(s2) ELSE s2
        id == NewId(s3)
    IN  [SetTimeout(s3, id, "watchdog", NoKey, 2000 * Ms) EXCEPT !.clockTimeout = id]

\* handleMidiClock()
handleMidiClock(s) ==
    LET pushed == Append(s.clockTimes, s.now - s.lastClockTime)
        window == IF Len(pushed) > 24 THEN Tail(pushed) ELSE pushed
        s1 == IF s.lastClockTime > 0
              THEN [s EXCEPT !.clockTimes = window,
                             !.detectedBPM = IF Len(window) >= 24 THEN windowBpm(window) ELSE @]
              ELSE s
        s2 == [s1 EXCEPT !.lastClockTime = s.now,
                         !.clockCount = @ + 1,
                         !.isReceivingClock = TRUE,
                         !.obs.ticksSinceExpiry = Min(@ + 1, 25)]
        s3 == IF s2.clockCount % 24 = 0 THEN onQuarterNote(s2) ELSE s2
        s4 == IF s3.clockTimeout # 0 THEN ClearTimeout(s3, s3.clockTimeout) ELSE s3
        id == NewId(s4)
    IN  [SetTimeout(s4, id, "watchdog", NoKey, 2000 * Ms) EXCEPT !.clockTimeout = id]

\* handleMidiMessage taking Start (0xFA) like Continue: the count goes on
handleMidiMessage_StartKeepsCount(s, status) ==
    CASE status = 248 -> handleMidiClock(s)
      [] status = 252 ->
            LET s1 == [s EXCEPT !.isReceivingClock = FALSE, !.detectedBPM = 0]
            IN  IF s1.clockTimeout # 0
                THEN [ClearTimeout(s1, s1.clockTimeout) EXCEPT !.clockTimeout = NoTimer]
                ELSE s1
      [] OTHER -> s

\* handleMidiMessage leaving the watchdog armed at Stop (0xFC)
handleMidiMessage_StopKeepsWatchdog(s, status) ==
    CASE status = 248 -> handleMidiClock(s)
      [] status = 250 -> [s EXCEPT !.clockCount = 0]
      [] status = 252 -> [s EXCEPT !.isReceivingClock = FALSE, !.detectedBPM = 0]
      [] OTHER -> s

\* handleMidiMessage(event), by the status byte of the message
handleMidiMessage(s, status) ==
    CASE status = 248 -> handleMidiClock(s)
      [] status = 250 -> [s EXCEPT !.clockCount = 0]
      [] status = 252 ->
            LET s1 == [s EXCEPT !.isReceivingClock = FALSE, !.detectedBPM = 0]
            IN  IF s1.clockTimeout # 0
                THEN [ClearTimeout(s1, s1.clockTimeout) EXCEPT !.clockTimeout = NoTimer]
                ELSE s1
      [] OTHER -> s


\* ------------------------------------------------------------------ initial state

\* createDefaultState(): one disabled note config, one disabled control config
DefaultNoteConfigs ==
    << [id |-> 1, enabled |-> FALSE, note |-> 36, velocity |-> 100, channel |-> 0] >>

DefaultControlConfigs ==
    << [id |-> 2, enabled |-> FALSE, controller |-> 1, value |-> 64, channel |-> 0] >>

\* The state after the services are constructed: DEFAULT_SETTINGS, the default
\* clock state, the lab's state (createDefaultState(), or what loadInitialState() found
\* in the storage), both effects waiting for their first run.  The page has been
\* loading for a millisecond.
Constructed(loadedNoteConfigs, loadedControlConfigs) ==
    /\ now = Ms
    /\ timers = {}
    /\ flushDue = Ms
    /\ clockSettings = [source |-> "internal", bpm |-> 120, isRunning |-> FALSE]
    /\ clockState = [isRunning |-> FALSE, currentBeat |-> 1, currentBar |-> 1,
                     beatsPerBar |-> 4, subdivision |-> 16]
    /\ lastPulse = NoPulse
    /\ intervalId = NoTimer
    /\ startTime = 0
    /\ pausedTime = 0
    /\ lastPulseTime = 0
    /\ clockEffectDirty = TRUE
    /\ playbackEffectDirty = TRUE
    /\ playbackEffectReadsLab = FALSE
    /\ playbackState = [isPlaying |-> FALSE, isEnabled |-> FALSE, lastTriggerTime |-> NoTime]
    /\ noteConfigs = loadedNoteConfigs
    /\ controlConfigs = loadedControlConfigs
    /\ noteOffTimeouts = << >>
    /\ clockCount = 0
    /\ lastClockTime = 0
    /\ clockTimes = << >>
    /\ clockTimeout = NoTimer
    /\ isReceivingClock = FALSE
    /\ detectedBPM = 0
    /\ notes = << >>
    /\ controls = << >>
    /\ idCounter = 0
    /\ isDirty = FALSE
    /\ autoSaveTimer = NoTimer
    /\ storage = [noteConfigs |-> loadedNoteConfigs, controlConfigs |-> loadedControlConfigs]
    /\ saving = << >>
    /\ env = [extRunning |-> FALSE, extSpacing |-> 0, extNextAt |-> NoTime,
              ticksSent |-> 0, sinceStart |-> 0, uniform |-> TRUE, idsIssued |-> 2, calls |-> 0,
              output |-> "ok",
              lastCall |-> [op |-> "none", arg |-> 0, flip |-> FALSE]]
    /\ obs = ObsInit

Init == Constructed(DefaultNoteConfigs, DefaultControlConfigs)

\* ------------------------------------------------------------------ time and timers

\* The latest moment time may reach before something that is due has to run:
\* a timer or the effect flush at most `late` after it is due, a tick of the
\* external device on time.
Limit(late) ==
    LET ds == {t.due + late : t \in timers}
                \cup (IF flushDue # NoTime THEN {flushDue + late} ELSE {})
                \cup (IF env.extRunning THEN {env.extNextAt} ELSE {})
    IN  IF ds = {} THEN NoTime ELSE CHOOSE d \in ds : \A e \in ds : d <= e

\* The moments something becomes due, and the same at most `late` later.
DueTimes(late) ==
    LET ds == {t.due : t \in timers}
                \cup (IF env.extRunning THEN {env.extNextAt} ELSE {})
    IN  ds \cup {d + late : d \in ds}

\* Time passes: by one of `steps`, or up to a moment of DueTimes, never past
\* Limit nor past `horizon`.
Advance(steps, late, horizon) ==
    \E t \in {now + d : d \in steps} \cup DueTimes(late) :
        /\ t > now
        /\ t <= horizon
        /\ Limit(late) = NoTime \/ t <= Limit(late)
        /\ Commit([S EXCEPT !.now = t])

\* A due timer fires: it leaves the pending set and its callback runs.
Fire(kind, callback(_, _)) ==
    \E t \in timers :
        /\ t.kind = kind
        /\ t.due <= now
        /\ Commit(callback([S EXCEPT !.timers = @ \ {t}], t))

PulseTimerFires == Fire("pulse", LAMBDA s, t : pulseCallback(s))

NoteOffTimerFires == Fire("noteOff", LAMBDA s, t : noteOffCallback(s, t))

WatchdogFires == Fire("watchdog", LAMBDA s, t : watchdogCallback(s))

AutoSaveTimerFires == Fire("autoSave", LAMBDA s, t : autoSaveCallback(s))

\* The scheduled flush of the effects runs.
Flush ==
    /\ flushDue # NoTime
    /\ Commit(flushEffects(S))

\* ------------------------------------------------------------------ calls from outside

\* A call or an event from outside, in a specification that allows at most
\* `max` of them: env.calls counts them.
Call(max, s) ==
    /\ env.calls < max
    /\ Commit([s EXCEPT !.env.calls = @ + 1])

\* env.lastCall remembers the last call of a setter of the clock (flip changes
\* with every such call).
Called(s, op, arg) ==
    [s EXCEPT !.env.lastCall = [op |-> op, arg |-> arg, flip |-> ~@.flip]]

\* MidiPatternService.playNote / a component's test button: playNote with any duration
PlayNote(keys, durations) ==
    \E k \in keys, d \in durations : Commit(playNote(S, k[2], 100, k[1], d))

StopAllNotes == Commit(stopAllNotes(S))

ManualTrigger == Commit(manualTrigger(S))

EnablePlayback == Commit(enablePlayback(S))

DisablePlayback == Commit(disablePlayback(S))

StartPlayback == Commit(startPlayback(S))

StopPlayback == Commit(stopPlayback(S))

TogglePlayback == Commit(togglePlayback(S))

\* the 'midiQuarterNote' window event reaches its listener
MidiQuarterNote == Commit(quarterNoteListener(S))

\* How many note configs the lab holds at most, and how many ids generateId()
\* hands out at most.
MaxConfigs == 2
MaxIds == 4

\* LabStateService.addNoteConfig(config), with the id generateId() hands out
addNoteConfig(s, config) ==
    updateState([s EXCEPT !.env.idsIssued = @ + 1,
                          !.noteConfigs = addConfig(@, config)])

\* addNoteConfig with a fresh id
AddNoteConfig(keys) ==
    /\ Len(noteConfigs) < MaxConfigs
    /\ env.idsIssued < MaxIds
    /\ \E k \in keys, e \in BOOLEAN :
         Commit(addNoteConfig(S, [id |-> env.idsIssued + 1,
                              enabled |-> e, note |-> k[2], velocity |-> 100,
                              channel |-> k[1]]))

\* LabStateService.updateNoteConfig(id, updates)
updateNoteConfig(s, id, updates) ==
    updateState([s EXCEPT !.noteConfigs = updateConfig(@, id, updates)])

\* updateNoteConfig for the id of a config
UpdateNoteConfig(keys) ==
    \E i \in DOMAIN noteConfigs :
       \/ \E e \in BOOLEAN :
            Commit(updateNoteConfig(S, noteConfigs[i].id, [enabled |-> e]))
       \/ \E k \in keys :
            Commit(updateNoteConfig(S, noteConfigs[i].id,
                                    [note |-> k[2], channel |-> k[1]]))

\* LabStateService.removeNoteConfig(id)
removeNoteConfig(s, id) ==
    Deleted(updateState([s EXCEPT !.noteConfigs = removeConfig(@, id)]), "noteConfig", id)

\* LabStateService.removeControlConfig(id)
removeControlConfig(s, id) ==
    Deleted(updateState([s EXCEPT !.controlConfigs = removeConfig(@, id)]),
            "controlConfig", id)

\* LabStateService.getNoteConfig(id) / getControlConfig(id)
getNoteConfig(s, id) == FindById(s.noteConfigs, id)

getControlConfig(s, id) == FindById(s.controlConfigs, id)

\* removeNoteConfig for the id of a config
RemoveNoteConfig ==
    \E i \in DOMAIN noteConfigs : Commit(removeNoteConfig(S, noteConfigs[i].id))

\* LabStateService.updateControlConfig(id, updates)
updateControlConfig(s, id, updates) ==
    updateState([s EXCEPT !.controlConfigs = updateConfig(@, id, updates)])

\* updateControlConfig(id, { enabled }) for the id of a config
UpdateControlConfig ==
    \E i \in DOMAIN controlConfigs, e \in BOOLEAN :
        Commit(updateControlConfig(S, controlConfigs[i].id, [enabled |-> e]))

\* ------------------------------------------------------------------ notes: specification

\* The note lifecycle by itself: playNote calls of 100 ms and 200 ms on two keys,
\* stopAllNotes, and time in steps of NoteStep up to NoteSteps of them.
NoteSteps == 8
NoteStep == 50 * Ms
NoteHorizon == Ms + NoteSteps * NoteStep
NoteDurations == {100 * Ms, 200 * Ms}
PlayKeys == {<< 0, 36 >>, << 9, 36 >>}

\* how late (in ms) a note-off timer may fire in this specification
NoteLate == 0

NextNotes ==
    \/ Advance({NoteStep}, NoteLate * Ms, NoteHorizon)
    \/ NoteOffTimerFires
    \/ Flush
    \/ PlayNote(PlayKeys, NoteDurations)
    \/ StopAllNotes

SpecNotes == Init /\ [][NextNotes]_vars


\* ------------------------------------------------------------------ notes: properties

\* C1: after playNote is called again for a key whose note-off timer is still
\* armed, the only note-off that follows is the one of the last call: at most one
\* note-off is requested after the last playNote of a key, it is requested at
\* that call's time plus its duration (at most NoteLate ms later when the timer
\* is late), and while the note waits for it exactly the timer of the last call
\* is armed for the key.
C1_RetriggerSingleNoteOff ==
    \A k \in Keys :
        /\ obs.offsSinceOn[k] <= 1
        /\ obs.offsSinceOn[k] = 1 => obs.offLate[k] \in 0..(NoteLate * Ms)
        /\ k \in obs.sounding =>
              /\ PendingFor(S, k) # {}
              /\ \A t \in PendingFor(S, k) : t.due = obs.expectOff[k]

\* C1 witness: a key was played again while its timer was armed, and its
\* note-off has since been requested, on time.
C1_Witness ==
    \E k \in Keys :
        obs.retriggered[k] /\ obs.offsSinceOn[k] = 1 /\ obs.offLate[k] = 0

\* C2: at most one note-off timer is pending per key, and noteOffTimeouts holds
\* an entry for a key exactly when a timer is pending for it (the entry is that
\* timer's id).
C2_OneTimerPerKey ==
    \A k \in Keys :
        /\ Cardinality(PendingFor(S, k)) <= 1
        /\ k \in DOMAIN noteOffTimeouts <=> PendingFor(S, k) # {}
        /\ \A t \in PendingFor(S, k) : noteOffTimeouts[k] = t.id

\* C2 witness: one key re-armed and pending, another one whose timer has fired
\* and whose entry is gone.
C2_Witness ==
    \E k1, k2 \in Keys :
        /\ obs.retriggered[k1] /\ k1 \in DOMAIN noteOffTimeouts
        /\ obs.offsSinceOn[k2] = 1 /\ k2 \notin DOMAIN noteOffTimeouts


\* ------------------------------------------------------------------ dispatch: specification

\* Every way a dispatch happens, interleaved: the internal clock's pulses while
\* playback is enabled and playing, the 'midiQuarterNote' event, manualTrigger,
\* and the lab's note configs removed in between.  Timers fire on time; time
\* runs up to DispatchSteps steps of DispatchStep.
DispatchSteps == 5
DispatchStep == 125 * Ms
DispatchHorizon == Ms + DispatchSteps * DispatchStep

\* how many calls and events come from outside in this specification
MaxDispatchCalls == 5

\* The lab as loadInitialState() finds it in the storage: two enabled note configs, on
\* one key or on two.
StoredNoteConfigs ==
    { << [id |-> 1, enabled |-> TRUE, note |-> 36, velocity |-> 100, channel |-> 0],
         [id |-> 2, enabled |-> TRUE, note |-> 36, velocity |-> 100, channel |-> c] >>
      : c \in ChannelValues }

InitDispatch == \E loaded \in StoredNoteConfigs : Constructed(loaded, DefaultControlConfigs)

NextDispatch ==
    \/ Advance({}, 0, DispatchHorizon)
    \/ NoteOffTimerFires
    \/ PulseTimerFires
    \/ Flush
    \/ Call(MaxDispatchCalls, manualTrigger(S))
    \/ Call(MaxDispatchCalls, quarterNoteListener(S))
    \/ Call(MaxDispatchCalls, enablePlayback(S))
    \/ Call(MaxDispatchCalls, startPlayback(S))
    \/ Call(MaxDispatchCalls, stopPlayback(S))
    \/ \E i \in DOMAIN noteConfigs :
          Call(MaxDispatchCalls, removeNoteConfig(S, noteConfigs[i].id))

SpecDispatch == InitDispatch /\ [][NextDispatch]_vars

\* ------------------------------------------------------------------ dispatch: properties

\* the keys of the note configs the lab holds
ConfiguredKeys == {<< noteConfigs[i].channel, noteConfigs[i].note >> : i \in DOMAIN noteConfigs}

\* C3: no note is left stuck on.  Whatever dispatched it (a clock pulse, the
\* quarter-note event, manualTrigger) and whether or not its instance still
\* exists, every key whose note-on was sent and whose note-off was not yet
\* requested has its note-off timer armed and not cancelled, due no more than
\* the 100 ms of a dispatched note from now; so the note-off follows as soon as
\* that timer fires.
C3_NoStuckNote ==
    \A k \in obs.sounding :
        /\ k \in DOMAIN noteOffTimeouts
        /\ \E t \in timers :
              /\ t.kind = "noteOff" /\ t.key = k /\ t.id = noteOffTimeouts[k]
              /\ t.due <= now + 100 * Ms

\* C3 witness: a clock pulse dispatched the notes, and the instance of a note
\* that is still sounding was deleted.
C3_Witness ==
    /\ obs.lastTrigger.src = "pulse"
    /\ \E k \in obs.sounding : k \notin ConfiguredKeys

\* ------------------------------------------------------------------ clock: specification

\* The internal clock and the pulse listener: the clock started, stopped and
\* reset, its bpm, beats per bar and subdivision set while it runs, playback
\* enabled, started and stopped, and pulse timers that fire up to ClockLate ms
\* late.  The lab holds the control config of createDefaultState(), enabled
\* (as loadInitialState() finds it in the storage), so that a dispatch sends one
\* control change.  Time runs up to ClockSteps sixteenth notes at 120 bpm.
ClockSteps == 5
ClockHorizon == Ms + ClockSteps * 125 * Ms

\* how late (in ms) a timer or the flush of the effects may run
ClockLate == 20

\* how many calls come from outside in this specification
MaxClockCalls == 4

ClockBpms == {100, 150}
ClockBeatsPerBar == {3}
ClockSubdivisions == {4, 8}

StoredControlConfigs ==
    << [id |-> 2, enabled |-> TRUE, controller |-> 1, value |-> 64, channel |-> 0] >>

InitClock == Constructed(DefaultNoteConfigs, StoredControlConfigs)

NextClock ==
    \/ Advance({}, ClockLate * Ms, ClockHorizon)
    \/ PulseTimerFires
    \/ Flush
    \/ Call(MaxClockCalls, enablePlayback(S))
    \/ Call(MaxClockCalls, startPlayback(S))
    \/ Call(MaxClockCalls, stopPlayback(S))
    \/ Call(MaxClockCalls, start(S))
    \/ Call(MaxClockCalls, stop(S))
    \/ Call(MaxClockCalls, reset(S))
    \/ \E bpm \in ClockBpms : Call(MaxClockCalls, setBpm(S, bpm))
    \/ \E beats \in ClockBeatsPerBar : Call(MaxClockCalls, setBeatsPerBar(S, beats))
    \/ \E subdivision \in ClockSubdivisions :
          Call(MaxClockCalls, setSubdivision(S, subdivision))

SpecClock == InitClock /\ [][NextClock]_vars

\* ------------------------------------------------------------------ clock: properties

\* C4: a pulse of the internal clock is dispatched at most once (no enabled
\* instance is sent more than one control change or note-on for it), also when
\* the clock state, the playback flags or the clock settings change before the
\* next pulse.  obs.pulseTriggers counts the dispatches of the pulse listener
\* since the last pulse was generated; a pulse with subdivision value 1 lies on
\* a quarter-note boundary at every subdivision setting.
C4_OncePerPulse ==
    (lastPulse # NoPulse /\ lastPulse.subdivision = 1) => obs.pulseTriggers <= 1

\* the position of the last pulse agrees with the time from startTime to its
\* timestamp: it is the N-th subdivision, counted from the start through bars,
\* beats and subdivisions, for the one N with N * interval <= T < (N+1) * interval
PositionFromElapsed ==
    LET T == lastPulse.timestamp - startTime
        interval == (240000 * Ms) \div (clockSettings.bpm * clockState.subdivision)
        perBeat == clockState.subdivision \div 4
        N == ((lastPulse.bar - 1) * clockState.beatsPerBar + (lastPulse.beat - 1)) * perBeat
                + (lastPulse.subdivision - 1)
    IN  /\ lastPulse.bar >= 1
        /\ lastPulse.beat \in 1..clockState.beatsPerBar
        /\ lastPulse.subdivision \in 1..perBeat
        /\ N * interval <= T
        /\ T < (N + 1) * interval
        /\ clockState.currentBar = lastPulse.bar
        /\ clockState.currentBeat = lastPulse.beat

\* C5: drift-freedom.  Whenever a pulse is generated, its (bar, beat,
\* subdivision) is the position of floor(T / msPerSubdivision) for the elapsed
\* time T = now - startTime, at the bpm, subdivision and beatsPerBar of that
\* moment, however many pulse timers fired before it and however late (0 to
\* ClockLate ms each) they fired.
C5_DriftFree == [][lastPulse' # lastPulse => PositionFromElapsed']_vars

\* C5 witness: a pulse of the second beat, generated late (off the grid of the
\* subdivisions) after earlier pulses.
C5_Witness ==
    /\ lastPulse # NoPulse
    /\ lastPulse.beat = 2
    /\ clockState.subdivision = 16
    /\ (lastPulse.timestamp - startTime) % (125 * Ms) # 0
    /\ PositionFromElapsed

\* C6: quarter-note gating.  A dispatch of the pulse listener happens only for
\* a pulse with (pulse.subdivision - 1) a multiple of max(1, subdivision / 4);
\* with subdivision 16 that is the pulse with subdivision value 1, none of the
\* values 2, 3, 4.
C6_QuarterNoteGate ==
    obs.lastTrigger.src = "pulse" =>
        LET perQuarter == IF obs.lastTrigger.subdivision >= 8
                          THEN obs.lastTrigger.subdivision \div 4 ELSE 1
        IN  /\ \E q \in 0..8 : obs.lastTrigger.pulse.subdivision = 1 + q * perQuarter
            /\ obs.lastTrigger.subdivision = 16 => obs.lastTrigger.pulse.subdivision = 1

\* C6 witness: with subdivision 16, the pulse with subdivision value 1 was
\* dispatched, and the pulse after it (value 2) was not.
C6_Witness ==
    /\ obs.lastTrigger.src = "pulse"
    /\ obs.lastTrigger.subdivision = 16
    /\ obs.lastTrigger.pulse.subdivision = 1
    /\ clockState.subdivision = 16
    /\ lastPulse.subdivision = 2
    /\ lastPulse.timestamp > obs.lastTrigger.pulse.timestamp
    /\ ~playbackEffectDirty
    /\ playbackState.isPlaying /\ playbackState.isEnabled

\* ------------------------------------------------------------------ end to end: specification

\* Two seconds of playback: playback is enabled and started on the default
\* settings (120 bpm, subdivision 16, 4 beats per bar), nothing else is called,
\* and the pulse timers fire up to ClockLate ms late.  Time runs to the moment
\* EndToEndMs after the clock's startTime, which it may also reach in one step.
EndToEndMs == 2000
EndToEndCalls == 2

NextEndToEnd ==
    \/ Advance({startTime + EndToEndMs * Ms - now}, ClockLate * Ms,
               startTime + EndToEndMs * Ms)
    \/ PulseTimerFires
    \/ Flush
    \/ Call(EndToEndCalls, enablePlayback(S))
    \/ Call(EndToEndCalls, startPlayback(S))

SpecEndToEnd == InitClock /\ [][NextEndToEnd]_vars

\* C7: end to end.  With the internal clock running at 120 bpm, subdivision 16,
\* 4 beats per bar, and playback enabled and playing, when exactly 2000 ms have
\* elapsed since the clock started and nothing that is due is still waiting to
\* run, the dispatcher has fired exactly 4 times and ClockState reports
\* currentBar = 2, currentBeat = 1.
C7_EndToEnd ==
    ( /\ clockState.isRunning
      /\ playbackState.isPlaying /\ playbackState.isEnabled
      /\ clockSettings.bpm = 120
      /\ clockState.subdivision = 16 /\ clockState.beatsPerBar = 4
      /\ now - startTime = 2000 * Ms
      /\ flushDue = NoTime
      /\ \A t \in timers : t.due > now )
    => ( /\ obs.triggerCount = 4
         /\ clockState.currentBar = 2
         /\ clockState.currentBeat = 1 )

\* the run of C7 with every timer on time: four dispatches, bar 2, beat 1
C7_OnTime ==
    /\ clockState.isRunning
    /\ now - startTime = 2000 * Ms
    /\ flushDue = NoTime
    /\ \A t \in timers : t.due > now
    /\ obs.triggerCount = 4
    /\ clockState.currentBar = 2
    /\ clockState.currentBeat = 1

\* ------------------------------------------------------------------ setters: specification

\* The setters of the clock called with valid and invalid arguments, while the
\* clock is stopped and while it runs.  env.lastCall remembers the last call.
SetterSteps == 2
SetterHorizon == Ms + SetterSteps * 125 * Ms
MaxSetterCalls == 4
BeatsPerBarArgs == {0, 1, 3, 16, 17, 20}
SubdivisionArgs == {0, 4, 7, 8, 32, 64}

NextSetters ==
    \/ Advance({}, 0, SetterHorizon)
    \/ PulseTimerFires
    \/ Flush
    \/ Call(MaxSetterCalls, start(S))
    \/ Call(MaxSetterCalls, stop(S))
    \/ \E beats \in BeatsPerBarArgs :
          Call(MaxSetterCalls, Called(setBeatsPerBar(S, beats), "setBeatsPerBar", beats))
    \/ \E subdivision \in SubdivisionArgs :
          Call(MaxSetterCalls,
               Called(setSubdivision(S, subdivision), "setSubdivision", subdivision))

SpecSetters == Init /\ [][NextSetters]_vars

\* what a call of a setter, remembered in env.lastCall of the state after it,
\* has done: a valid argument has set its field of ClockState and no other, an
\* invalid one has left ClockState and all the rest of the state as it was
SetterFrame ==
    LET call == env'.lastCall
        untouched == /\ clockState' = clockState
                     /\ UNCHANGED << now, timers, flushDue, clockSettings, lastPulse,
                                     intervalId, startTime, pausedTime, lastPulseTime,
                                     clockEffectDirty, playbackEffectDirty,
                                     playbackEffectReadsLab, playbackState,
                                     noteConfigs, controlConfigs, noteOffTimeouts,
                                     notes, controls, idCounter, isDirty,
                                     autoSaveTimer, storage, saving, obs >>
    IN  CASE call.op = "setBeatsPerBar" ->
                IF call.arg \in 1..16
                THEN clockState' = [clockState EXCEPT !.beatsPerBar = call.arg]
                ELSE untouched
          [] call.op = "setSubdivision" ->
                IF call.arg \in {4, 8, 16, 32}
                THEN clockState' = [clockState EXCEPT !.subdivision = call.arg]
                ELSE untouched
          [] OTHER -> TRUE

\* C8: setBeatsPerBar(n) with n outside 1..16 and setSubdivision(s) with s not
\* one of 4, 8, 16, 32 leave every field of ClockState (and the rest of the
\* state) at its value before the call; a valid argument sets exactly the named
\* field of ClockState.
C8_SetterFrame == [][env'.lastCall # env.lastCall => SetterFrame]_vars

\* C8 witness: valid calls have set beatsPerBar and subdivision while the clock
\* runs, and the last call, an invalid one, has left them there.
C8_Witness ==
    /\ clockState.isRunning
    /\ clockState.beatsPerBar = 3
    /\ clockState.subdivision = 8
    /\ \/ env.lastCall.op = "setBeatsPerBar" /\ env.lastCall.arg = 17
       \/ env.lastCall.op = "setSubdivision" /\ env.lastCall.arg = 7

\* ------------------------------------------------------------------ external clock: specification

\* A device on the MIDI input: once begun it sends a clock tick (0xF8) every
\* extSpacing microseconds until it pauses or has sent MaxTicks ticks; it also
\* sends Start (0xFA) and Stop (0xFC); Continue (0xFB) changes nothing.  env.uniform holds while the estimator
\* has seen nothing but the ticks of the device's first run.
MaxTicks == 26
MaxDeviceCalls == 3
TickSpacings == {20833, 22 * Ms}
DeviceSteps == 3
DeviceStep == 1000 * Ms
DeviceHorizon == Ms + DeviceSteps * DeviceStep

\* how late (in ms) the watchdog timer may fire
DeviceLate == 0

ExtBegin ==
    /\ ~env.extRunning
    /\ env.ticksSent < MaxTicks
    /\ \E d \in TickSpacings :
         Call(MaxDeviceCalls,
              [S EXCEPT !.env.extRunning = TRUE, !.env.extSpacing = d,
                        !.env.extNextAt = now,
                        !.env.uniform = @ /\ env.ticksSent = 0])

ExtTick ==
    /\ env.extRunning
    /\ env.extNextAt = now
    /\ Commit([handleMidiMessage(S, 248) EXCEPT
                  !.env.ticksSent = @ + 1,
                  !.env.sinceStart = @ + 1,
                  !.env.extNextAt = @ + env.extSpacing,
                  !.env.extRunning = (env.ticksSent + 1 < MaxTicks)])

ExtPause ==
    /\ env.extRunning
    /\ Call(MaxDeviceCalls, [S EXCEPT !.env.extRunning = FALSE])

MidiStart ==
    Call(MaxDeviceCalls,
         Called([handleMidiMessage(S, 250) EXCEPT !.env.sinceStart = 0], "midiStart", 0))

MidiStop ==
    Call(MaxDeviceCalls,
         Called([handleMidiMessage(S, 252) EXCEPT !.env.uniform = FALSE], "midiStop", 0))

NextDevice ==
    \/ Advance({DeviceStep}, DeviceLate * Ms, DeviceHorizon)
    \/ WatchdogFires
    \/ Flush
    \/ ExtBegin
    \/ ExtTick
    \/ ExtPause
    \/ MidiStart
    \/ MidiStop

SpecDevice == Init /\ [][NextDevice]_vars

\* ------------------------------------------------------------------ external clock: properties

\* C9: convergence of the BPM estimate.  While a fresh estimator has received
\* nothing but ticks at one uniform spacing d, after exactly 24 of them
\* detectedBPM is round(60000 / (24 * d)) (120 for d = 20.833 ms), and after
\* fewer than 24 it is still 0.
C9_Convergence ==
    (env.uniform /\ env.ticksSent >= 1 /\ isReceivingClock) =>
        /\ env.ticksSent = 24 => detectedBPM = Round(60000 * Ms, 24 * env.extSpacing)
        /\ env.ticksSent < 24 => detectedBPM = 0

\* what the estimator does for such a run of ticks: the estimate is there with
\* the 25th tick, the first one with 24 intervals behind it, and not before
EstimateWithTick25 ==
    (env.uniform /\ env.ticksSent >= 1 /\ isReceivingClock) =>
        /\ env.ticksSent >= 25 => detectedBPM = Round(60000 * Ms, 24 * env.extSpacing)
        /\ env.ticksSent < 25 => detectedBPM = 0

\* C10: the watchdog.  The watchdog timer is armed for 2000 ms after the last
\* tick; once more than 2000 ms (and the DeviceLate ms the timer may be late)
\* have passed since the last tick, and whenever no watchdog is pending after a
\* tick, isReceivingClock is false and detectedBPM is 0.
C10_Watchdog ==
    lastClockTime > 0 =>
        /\ \A t \in timers : t.kind = "watchdog" =>
              t.id = clockTimeout /\ t.due = lastClockTime + 2000 * Ms
        /\ (now - lastClockTime > 2000 * Ms + DeviceLate * Ms \/
            ~ \E t \in timers : t.kind = "watchdog")
           => (~isReceivingClock /\ detectedBPM = 0)

\* C10 witness: the ticks stopped after the estimate was there (the window of
\* 24 intervals is full), 2000 ms went by, the watchdog fired (no Stop message
\* cleared it: clockTimeout still holds its id) and reset both.
C10_Witness ==
    /\ Len(clockTimes) = 24
    /\ now - lastClockTime >= 2000 * Ms
    /\ clockTimeout # NoTimer
    /\ ~ \E t \in timers : t.kind = "watchdog"
    /\ ~isReceivingClock
    /\ detectedBPM = 0

\* ------------------------------------------------------------------ clock control: specification

\* The controls of the clock in every order: start, stop, reset, the setters
\* and the switch of the clock source, with runs of the settings effect and
\* firings of the pulse timer (up to ClockLate ms late) in between.  Time also
\* passes, a sixteenth note at a time, while the clock is stopped.
\* env.lastCall remembers the last call.
MaxControlCalls == 3
ControlBeatsPerBar == {1, 3}

NextControl ==
    \/ Advance({125 * Ms}, ClockLate * Ms, ClockHorizon)
    \/ PulseTimerFires
    \/ Flush
    \/ Call(MaxControlCalls, Called(start(S), "start", 0))
    \/ Call(MaxControlCalls, Called(stop(S), "stop", 0))
    \/ Call(MaxControlCalls, Called(reset(S), "reset", 0))
    \/ \E bpm \in ClockBpms :
          Call(MaxControlCalls, Called(setBpm(S, bpm), "setBpm", bpm))
    \/ \E beats \in ControlBeatsPerBar :
          Call(MaxControlCalls, Called(setBeatsPerBar(S, beats), "setBeatsPerBar", beats))
    \/ \E subdivision \in ClockSubdivisions :
          Call(MaxControlCalls,
               Called(setSubdivision(S, subdivision), "setSubdivision", subdivision))
    \/ \E source \in {"internal", "external"} :
          Call(MaxControlCalls, Called(setClockSource(S, source), "setClockSource", 0))

SpecControl == Init /\ [][NextControl]_vars

\* ------------------------------------------------------------------ clock control: properties

\* the pending timers of the clock's pulse chain
PulseTimers == {t \in timers : t.kind = "pulse"}

\* C11: at every moment at most one pulse timer is pending for the clock, and
\* it is the one intervalId names, whatever the order of start, stop, reset,
\* setBpm, setSubdivision, switches of the clock source, runs of the settings
\* effect and firings of the timer.
C11_OnePulseTimer ==
    /\ Cardinality(PulseTimers) <= 1
    /\ \A t \in PulseTimers : t.id = intervalId

\* C11 witness: the clock runs, its timing was changed by a setter after pulses
\* were generated, and one timer is pending.
C11_Witness ==
    /\ clockState.isRunning
    /\ lastPulse # NoPulse
    /\ env.lastCall.op \in {"setBpm", "setSubdivision", "setClockSource"}
    /\ ~clockEffectDirty
    /\ Cardinality(PulseTimers) = 1

\* C12: reset() leaves the clock stopped at beat 1, bar 1 with pausedTime 0 in
\* the settled state after it: once the effects that follow the call have run,
\* and for as long as no other call is made, isRunning is false, currentBeat
\* and currentBar are 1 and pausedTime is 0, also when the internal clock was
\* running when reset() was called.
C12_ResetSettled ==
    (env.lastCall.op = "reset" /\ flushDue = NoTime /\ clockSettings.source = "internal") =>
        /\ ~clockState.isRunning
        /\ clockState.currentBeat = 1
        /\ clockState.currentBar = 1
        /\ pausedTime = 0

\* what does hold in the settled state after reset(): the clock is stopped
\* with no pulse timer pending, at beat 1, bar 1 unless a pulse timer fired
\* between the call and the run of the effect
ResetStopsClock ==
    (env.lastCall.op = "reset" /\ flushDue = NoTime) =>
        /\ ~clockState.isRunning
        /\ PulseTimers = {}

\* C13: pause and resume.  The step that stops the clock records
\* pausedTime = now - startTime, and the step that starts the internal clock
\* again sets startTime = now - pausedTime: right after the resume the elapsed
\* time now - startTime is the pausedTime recorded at the stop, whatever time
\* passed in between.
C13_PauseResume ==
    [][ /\ (clockState.isRunning /\ ~clockState'.isRunning)
             => pausedTime' = now' - startTime'
        /\ (~clockState.isRunning /\ clockState'.isRunning
                /\ clockSettings'.source = "internal")
             => (now' - startTime' = pausedTime /\ pausedTime' = pausedTime) ]_vars

\* C13 witness: the clock was stopped after it had run for a while, stayed
\* stopped for some time and has just resumed: the elapsed time is the recorded
\* pausedTime, and startTime has moved by the length of the pause.
C13_Witness ==
    /\ clockState.isRunning
    /\ clockSettings.source = "internal"
    /\ pausedTime >= 125 * Ms
    /\ now - startTime = pausedTime
    /\ startTime > Ms
    /\ lastPulse # NoPulse

\* C14: after stop() is called on a running internal clock no further pulse is
\* emitted until start() is called again: while the settings say the clock is
\* stopped (stop() or reset() was the last of the start/stop calls), lastPulse
\* does not change.
C14_NoPulseAfterStop ==
    [][~clockSettings.isRunning => lastPulse' = lastPulse]_vars

\* what does hold after stop(): once the settings effect that follows the call
\* has run, the clock is stopped and no pulse timer is pending
StopSettled ==
    (~clockSettings.isRunning /\ ~clockEffectDirty) =>
        (~clockState.isRunning /\ PulseTimers = {})

\* and from then on no pulse is emitted
NoPulseWhileStopped ==
    [][(~clockSettings.isRunning /\ ~clockEffectDirty) => lastPulse' = lastPulse]_vars

\* C15: in every reachable ClockState currentBeat lies in 1..beatsPerBar and
\* currentBar is at least 1, after any sequence of start, stop, reset,
\* setBeatsPerBar, setSubdivision, setBpm and pulses.
C15_BeatInBar ==
    /\ clockState.currentBeat >= 1
    /\ clockState.currentBeat <= clockState.beatsPerBar
    /\ clockState.currentBar >= 1

\* what does hold: the position generatePulse writes lies within the bar as it
\* is when the pulse is generated
PulseInBar ==
    [][lastPulse' # lastPulse =>
          /\ clockState'.currentBeat \in 1..clockState'.beatsPerBar
          /\ clockState'.currentBar >= 1]_vars

\* C16: while the clock runs, the position never moves backwards from one
\* pulse to the next of the same run, also when setBpm, setSubdivision or
\* setBeatsPerBar is called between the two pulses: in particular (leaving
\* aside the subdivision value, whose unit setSubdivision changes) the pair
\* (bar, beat) of a pulse is never before the pair of the pulse it follows, and
\* the bar changes only with a pulse of beat 1.  (A pulse belongs to the run if
\* it was generated after the run's startTime.)
C16_MonotonePosition ==
    [][ ( /\ clockState.isRunning
          /\ lastPulse # NoPulse
          /\ lastPulse.timestamp > startTime
          /\ lastPulse' # lastPulse )
        => /\ \/ lastPulse'.bar > lastPulse.bar
              \/ /\ lastPulse'.bar = lastPulse.bar
                 /\ lastPulse'.beat >= lastPulse.beat
           /\ lastPulse'.bar # lastPulse.bar => lastPulse'.beat = 1 ]_vars

\* ------------------------------------------------------------------ tempo: specification

\* SettingsService.setBpm called with whole and fractional values inside, at
\* the edges of and outside [60, 200] (given in tenths of a bpm), the clock
\* stopped or running.  env.lastCall remembers the last call.
MaxTempoCalls == 3
BpmTenths == {500, 594, 596, 600, 604, 1205, 1400, 1996, 2000, 2004, 2500}

NextTempo ==
    \/ Advance({}, 0, SetterHorizon)
    \/ PulseTimerFires
    \/ Flush
    \/ Call(MaxTempoCalls, start(S))
    \/ Call(MaxTempoCalls, stop(S))
    \/ \E tenths \in BpmTenths :
          Call(MaxTempoCalls, Called(settingsSetBpmTenths(S, tenths), "setBpm", tenths))

SpecTempo == Init /\ [][NextTempo]_vars

\* C17: SettingsService.setBpm(b) with b < 60 or b > 200 leaves the bpm and
\* everything else of the settings (and of the program state) unchanged; with b
\* in [60, 200] it stores b rounded to the nearest integer and nothing else;
\* after every call the bpm is an integer in 60..200, and it is what
\* ClockService.currentBpm reports.
C17_BpmInRange ==
    [][ env'.lastCall # env.lastCall =>
          LET b == env'.lastCall.arg IN
          /\ IF b < 600 \/ b > 2000
             THEN UNCHANGED << now, timers, flushDue, clockSettings, clockState,
                               lastPulse, intervalId, startTime, pausedTime,
                               lastPulseTime, clockEffectDirty, playbackEffectDirty,
                               playbackEffectReadsLab, playbackState,
                               noteConfigs, controlConfigs, notes, controls,
                               idCounter, isDirty, autoSaveTimer, storage,
                               saving, obs >>
             ELSE clockSettings' =
                     [clockSettings EXCEPT !.bpm = (b + 5) \div 10]
          /\ clockSettings'.bpm \in 60..200
          /\ currentBpm(S)' = clockSettings'.bpm ]_vars

\* C17 witness: a fractional bpm was rounded and stored, and the last call,
\* with a value out of range, has left it there while the clock runs.
C17_Witness ==
    /\ clockSettings.bpm = 121
    /\ clockState.isRunning
    /\ env.lastCall.op = "setBpm"
    /\ env.lastCall.arg \in {594, 2004}

\* ------------------------------------------------------------------ playback state: specification

\* The playback switches (enable, disable, start, stop, toggle) in any order,
\* the clock source switched, the internal clock auto-started by startPlayback,
\* and an external device that sends MaxTicks ticks 20.833 ms apart and may
\* send a Stop message.  The time ends before the watchdog of the ticks is due.
MaxPlaybackCalls == 3
PlaybackHorizon == 700 * Ms

DeviceBegins ==
    /\ ~env.extRunning
    /\ env.ticksSent = 0
    /\ Commit([S EXCEPT !.env.extRunning = TRUE, !.env.extSpacing = 20833,
                        !.env.extNextAt = now])

NextPlayback ==
    \/ Advance({}, 0, PlaybackHorizon)
    \/ PulseTimerFires
    \/ Flush
    \/ DeviceBegins
    \/ ExtTick
    \/ Call(MaxPlaybackCalls, handleMidiMessage(S, 252))
    \/ Call(MaxPlaybackCalls, Called(enablePlayback(S), "enablePlayback", 0))
    \/ Call(MaxPlaybackCalls, Called(disablePlayback(S), "disablePlayback", 0))
    \/ Call(MaxPlaybackCalls, Called(startPlayback(S), "startPlayback", 0))
    \/ Call(MaxPlaybackCalls, Called(stopPlayback(S), "stopPlayback", 0))
    \/ Call(MaxPlaybackCalls, Called(togglePlayback(S), "togglePlayback", 0))
    \/ \E source \in {"internal", "external"} :
          Call(MaxPlaybackCalls, setClockSource(S, source))

SpecPlayback == Init /\ [][NextPlayback]_vars

\* C18: in every reachable PlaybackState isPlaying implies isEnabled, whatever
\* the order of enablePlayback, disablePlayback, startPlayback, stopPlayback
\* and togglePlayback: right after startPlayback (or a toggle) on disabled
\* playback nothing is playing, and right after disablePlayback nothing is
\* playing.
C18_PlayingImpliesEnabled ==
    /\ playbackState.isPlaying => playbackState.isEnabled
    /\ (env.lastCall.op \in {"startPlayback", "togglePlayback"}
           /\ ~playbackState.isEnabled) => ~playbackState.isPlaying
    /\ env.lastCall.op = "disablePlayback"
          => (~playbackState.isPlaying /\ ~playbackState.isEnabled)

\* C18 witness: playback was enabled and started, and the last call,
\* disablePlayback, has cleared both flags while the auto-started clock runs on.
C18_Witness ==
    /\ env.lastCall.op = "disablePlayback"
    /\ ~playbackState.isPlaying
    /\ ~playbackState.isEnabled
    /\ clockState.isRunning
    /\ lastPulse # NoPulse

\* C19: playbackStatus is a function of the current state: DISABLED when
\* playback is not enabled; else STOPPED when not playing; else, with the
\* internal source, PLAYING (<bpm> BPM) with the bpm of the settings when the
\* clock is running and CLOCK STOPPED when it is not; with the external
\* source, PLAYING (SYNCED <bpm> BPM) with the detected bpm when the external
\* clock is being received and WAITING FOR MIDI CLOCK when it is not.
C19_PlaybackStatus ==
    playbackStatus(S) =
        CASE ~playbackState.isEnabled -> << "DISABLED" >>
          [] playbackState.isEnabled /\ ~playbackState.isPlaying -> << "STOPPED" >>
          [] playbackState.isEnabled /\ playbackState.isPlaying
               /\ clockSettings.source = "internal" /\ clockState.isRunning
               -> << "PLAYING (", clockSettings.bpm, " BPM)" >>
          [] playbackState.isEnabled /\ playbackState.isPlaying
               /\ clockSettings.source = "internal" /\ ~clockState.isRunning
               -> << "CLOCK STOPPED" >>
          [] playbackState.isEnabled /\ playbackState.isPlaying
               /\ clockSettings.source = "external" /\ isReceivingClock
               -> << "PLAYING (SYNCED ", detectedBPM, " BPM)" >>
          [] playbackState.isEnabled /\ playbackState.isPlaying
               /\ clockSettings.source = "external" /\ ~isReceivingClock
               -> << "WAITING FOR MIDI CLOCK" >>

\* C19 witness: playback runs on the external source and the device's ticks
\* have produced an estimate, which the status shows.
C19_Witness ==
    /\ playbackStatus(S) = << "PLAYING (SYNCED ", 120, " BPM)" >>
    /\ clockSettings.source = "external"

\* The other texts of the status are reached as well: the clock of the
\* settings started and the clock itself not yet running.
StatusClockStopped ==
    /\ playbackStatus(S) = << "CLOCK STOPPED" >>
    /\ clockSettings.isRunning

StatusWaiting == playbackStatus(S) = << "WAITING FOR MIDI CLOCK" >>

StatusPlaying == playbackStatus(S) = << "PLAYING (", 120, " BPM)" >>

\* ------------------------------------------------------------------ lab configs: specification

\* A lab loaded with an enabled and a disabled note config and an enabled
\* control config; playback enabled and started on the internal clock, manual
\* triggers and quarter notes of an external clock; the enabled flags of the
\* configs toggled and a note config removed at any moment in between.
MaxLabCalls == 4
LabPulses == 9
LabHorizon == Ms + LabPulses * 125 * Ms

LabNoteConfigs ==
    << [id |-> 1, enabled |-> TRUE, note |-> 36, velocity |-> 100, channel |-> 0],
       [id |-> 2, enabled |-> FALSE, note |-> 36, velocity |-> 90, channel |-> 9] >>

InitLab == Constructed(LabNoteConfigs, StoredControlConfigs)

NextLab ==
    \/ Advance({}, 0, LabHorizon)
    \/ PulseTimerFires
    \/ NoteOffTimerFires
    \/ Flush
    \/ Call(MaxLabCalls, Called(enablePlayback(S), "enablePlayback", 0))
    \/ Call(MaxLabCalls, Called(startPlayback(S), "startPlayback", 0))
    \/ Call(MaxLabCalls, Called(manualTrigger(S), "manualTrigger", 0))
    \/ Call(MaxLabCalls, Called(quarterNoteListener(S), "midiQuarterNote", 0))
    \/ \E i \in DOMAIN noteConfigs, e \in BOOLEAN :
          Call(MaxLabCalls, Called(updateNoteConfig(S, noteConfigs[i].id, [enabled |-> e]),
                                   "updateNoteConfig", noteConfigs[i].id))
    \/ \E i \in DOMAIN controlConfigs, e \in BOOLEAN :
          Call(MaxLabCalls, Called(updateControlConfig(S, controlConfigs[i].id,
                                                       [enabled |-> e]),
                                   "updateControlConfig", controlConfigs[i].id))
    \/ \E i \in DOMAIN noteConfigs :
          Call(MaxLabCalls, Called(removeNoteConfig(S, noteConfigs[i].id),
                                   "removeNoteConfig", noteConfigs[i].id))

SpecLab == InitLab /\ [][NextLab]_vars

\* C20: every dispatch (triggerPlayback) calls playNote exactly once, with
\* its note, velocity, channel and 100 ms, for every note config that is
\* enabled in the lab as it is when the dispatch begins, and sendControlChange
\* exactly once for every enabled control config, and makes no other call;
\* the counts of the playbackTrigger notification are the numbers of enabled
\* note configs and of enabled control configs.
C20_DispatchSendsEnabled ==
    [][ obs'.lastTrigger # obs.lastTrigger =>
          LET enabledNotes == SelectSeq(noteConfigs, LAMBDA c : c.enabled)
              enabledControls == SelectSeq(controlConfigs, LAMBDA c : c.enabled)
              calls == obs'.lastTrigger.calls
          IN  /\ Len(calls) = Len(enabledNotes) + Len(enabledControls)
              /\ \A i \in 1..Len(enabledNotes) :
                    calls[i] = << "playNote", enabledNotes[i].note, enabledNotes[i].velocity,
                                  enabledNotes[i].channel, 100 * Ms >>
              /\ \A i \in 1..Len(enabledControls) :
                    calls[Len(enabledNotes) + i] =
                        << "sendControlChange", enabledControls[i].controller,
                           enabledControls[i].value, enabledControls[i].channel >>
              /\ obs'.lastTrigger.noteCount = Len(enabledNotes)
              /\ obs'.lastTrigger.controlCount = Len(enabledControls) ]_vars

\* C20 witness: after a first dispatch the enabled note config was switched
\* off; the dispatch that followed sent the control change alone, nothing for
\* the two disabled note configs.
C20_Witness ==
    /\ obs.triggerCount >= 2
    /\ env.lastCall.op = "updateNoteConfig"
    /\ Len(noteConfigs) = 2
    /\ \A i \in DOMAIN noteConfigs : ~noteConfigs[i].enabled
    /\ obs.lastTrigger.calls = << << "sendControlChange", 1, 64, 0 >> >>
    /\ obs.lastTrigger.noteCount = 0
    /\ obs.lastTrigger.controlCount = 1

\* ------------------------------------------------------------------ instances: specification

\* The instance registry (MidiPatternService) next to the lab: instances are
\* created, played all at once (playAllNotes, sendAllControls) and deleted; the
\* lab's configs are dispatched by manualTrigger and removed; note-off timers
\* fire on time.
MaxPatternCalls == 4
PatternNotes == {<< 36, 100, 0 >>, << 38, 100, 9 >>}

NextPattern ==
    \/ Advance({}, 0, NoteHorizon)
    \/ NoteOffTimerFires
    \/ Flush
    \/ \E a \in PatternNotes :
          Call(MaxPatternCalls, Called(createNote(S, a[1], a[2], a[3]), "createNote", 0))
    \/ Call(MaxPatternCalls, Called(createControl(S, 1, 64, 0), "createControl", 0))
    \/ Call(MaxPatternCalls, Called(playAllNotes(S, 100 * Ms), "playAllNotes", 0))
    \/ Call(MaxPatternCalls, Called(sendAllControls(S), "sendAllControls", 0))
    \/ \E i \in DOMAIN notes :
          Call(MaxPatternCalls, Called(deleteNoteById(S, notes[i].id),
                                       "deleteNote", notes[i].id))
    \/ \E i \in DOMAIN controls :
          Call(MaxPatternCalls, Called(deleteControlById(S, controls[i].id),
                                       "deleteControl", controls[i].id))
    \/ Call(MaxPatternCalls, Called(enablePlayback(S), "enablePlayback", 0))
    \/ Call(MaxPatternCalls, Called(manualTrigger(S), "manualTrigger", 0))
    \/ \E i \in DOMAIN noteConfigs :
          Call(MaxPatternCalls, Called(removeNoteConfig(S, noteConfigs[i].id),
                                       "removeNoteConfig", noteConfigs[i].id))
    \/ \E i \in DOMAIN controlConfigs :
          Call(MaxPatternCalls, Called(removeControlConfig(S, controlConfigs[i].id),
                                       "removeControlConfig", controlConfigs[i].id))

SpecPattern == InitLab /\ [][NextPattern]_vars

\* C21: deleting a note instance (MidiNote.delete) while it is sounding, its
\* note-off timer armed, sends the note-off at once and cancels the timer:
\* right after the delete no note-off timer is pending for the (channel, note)
\* of the instance and the note is not sounding.
C21_DeleteSilences ==
    [][ (env'.lastCall # env.lastCall /\ env'.lastCall.op = "deleteNote") =>
          \A i \in DOMAIN notes :
             LET k == << notes[i].channel, notes[i].note >> IN
             (notes[i].id = env'.lastCall.arg /\ PendingFor(S, k) # {}) =>
                 /\ \A t \in timers' : ~(t.kind = "noteOff" /\ t.key = k)
                 /\ k \notin obs'.sounding ]_vars

\* What deleting does do: it takes the instance out of the registry and leaves
\* timers, the timeout map and what is sounding as they are.
DeleteLeavesTimers ==
    [][ (env'.lastCall # env.lastCall /\ env'.lastCall.op = "deleteNote") =>
          /\ timers' = timers
          /\ noteOffTimeouts' = noteOffTimeouts
          /\ obs'.sounding = obs.sounding ]_vars

\* the lookup of a deleted instance, by its kind
LookupDeleted(d) ==
    CASE d[1] = "note" -> getNoteById(S, d[2])
      [] d[1] = "control" -> getControlById(S, d[2])
      [] d[1] = "noteConfig" -> getNoteConfig(S, d[2])
      [] d[1] = "controlConfig" -> getControlConfig(S, d[2])

\* C22: after an instance is deleted (removeNoteConfig, removeControlConfig,
\* MidiNote.delete, MidiControl.delete) no later dispatch sends a note-on or a
\* control change for it, and the lookup of its id returns undefined.
C22_DeletedNotDispatched ==
    [][ /\ obs'.sentFlip # obs.sentFlip =>
              \A n \in 1..Len(obs'.sentFor) : obs'.sentFor[n] \notin obs.deleted
        /\ \A d \in obs'.deleted : LookupDeleted(d)' = Undefined ]_vars

\* C22 witness: two note instances were created and the first was deleted;
\* playAllNotes, the last call, has played the second alone.
C22_Witness ==
    /\ env.lastCall.op = "playAllNotes"
    /\ << "note", 1 >> \in obs.deleted
    /\ obs.sentFor = << << "note", 2 >> >>
    /\ getNoteById(S, 1) = Undefined
    /\ getNoteById(S, 2) # Undefined

\* The same for the lab: the enabled note config was removed and manualTrigger,
\* the last call, has sent the control change alone.
LabDeletedNotDispatched ==
    /\ env.lastCall.op = "manualTrigger"
    /\ << "noteConfig", 1 >> \in obs.deleted
    /\ obs.sentFor = << << "controlConfig", 2 >> >>

\* ------------------------------------------------------------------ instance values: specification

\* Instances created and their setters called with integers inside, at the
\* edges of and outside the MIDI ranges.
MaxValueCalls == 3
ValueArgs == {-1, 0, 1, 15, 16, 127, 128}
CreateNoteArgs == {<< 60, 100, 0 >>, << 128, 0, 16 >>, << -1, 128, -1 >>}
CreateControlArgs == {<< 1, 64, 0 >>, << 128, -1, 16 >>}

NextValues ==
    \/ Flush
    \/ \E a \in CreateNoteArgs :
          Call(MaxValueCalls, Called(createNote(S, a[1], a[2], a[3]), "createNote", a[1]))
    \/ \E a \in CreateControlArgs :
          Call(MaxValueCalls, Called(createControl(S, a[1], a[2], a[3]),
                                     "createControl", a[1]))
    \/ \E i \in DOMAIN notes, v \in ValueArgs :
          \/ Call(MaxValueCalls, Called(setNote(S, notes[i].id, v), "setNote", v))
          \/ Call(MaxValueCalls, Called(setVelocity(S, notes[i].id, v), "setVelocity", v))
          \/ Call(MaxValueCalls, Called(setChannel(S, notes[i].id, v), "setChannel", v))
    \/ \E i \in DOMAIN controls, v \in ValueArgs :
          \/ Call(MaxValueCalls, Called(setController(S, controls[i].id, v),
                                        "setController", v))
          \/ Call(MaxValueCalls, Called(setValue(S, controls[i].id, v), "setValue", v))
          \/ Call(MaxValueCalls, Called(controlSetChannel(S, controls[i].id, v),
                                        "controlSetChannel", v))

SpecValues == Init /\ [][NextValues]_vars

\* C23: every note instance the registry holds has its note in 0..127, its
\* velocity in 1..127 and its channel in 0..15, and every control instance its
\* controller and value in 0..127 and its channel in 0..15, after any create
\* and setter calls with any integer arguments.
C23_ValuesInRange ==
    /\ \A i \in DOMAIN notes :
          /\ notes[i].note \in 0..127
          /\ notes[i].velocity \in 1..127
          /\ notes[i].channel \in 0..15
    /\ \A i \in DOMAIN controls :
          /\ controls[i].controller \in 0..127
          /\ controls[i].value \in 0..127
          /\ controls[i].channel \in 0..15

\* one instance has the field set to the value, everything else is as before
OneFieldSet(before, after, field, value) ==
    \E i \in DOMAIN before : after = [before EXCEPT ![i][field] = value]

\* What holds: a setter stores its argument clamped to the range of the field,
\* in one instance, and changes nothing else of the registry.
SetterClamps ==
    [][ env'.lastCall # env.lastCall =>
          LET v == env'.lastCall.arg
              op == env'.lastCall.op
              c127 == IF v < 0 THEN 0 ELSE IF v > 127 THEN 127 ELSE v
              c15 == IF v < 0 THEN 0 ELSE IF v > 15 THEN 15 ELSE v
              v127 == IF v < 1 THEN 1 ELSE IF v > 127 THEN 127 ELSE v
          IN  /\ op = "setNote" => OneFieldSet(notes, notes', "note", c127)
              /\ op = "setVelocity" => OneFieldSet(notes, notes', "velocity", v127)
              /\ op = "setChannel" => OneFieldSet(notes, notes', "channel", c15)
              /\ op = "setController" => OneFieldSet(controls, controls', "controller", c127)
              /\ op = "setValue" => OneFieldSet(controls, controls', "value", c127)
              /\ op = "controlSetChannel" => OneFieldSet(controls, controls', "channel", c15)
              /\ op \in {"setNote", "setVelocity", "setChannel"} => controls' = controls
              /\ op \in {"setController", "setValue", "controlSetChannel"} => notes' = notes ]_vars

\* ------------------------------------------------------------------ external clock: quarter notes and expiry

\* C24: a tick signals a quarter-note boundary ('midiQuarterNote') exactly when
\* the number of ticks since the last MIDI Start, or since creation, is a
\* positive multiple of 24, and nothing else signals one; MIDI Start sets the
\* count to 0 and leaves detectedBPM as it is.
C24_QuarterNoteEvery24 ==
    [][ /\ env'.ticksSent # env.ticksSent =>
              ((obs'.quarterFlip # obs.quarterFlip) <=>
                   (env'.sinceStart > 0 /\ env'.sinceStart % 24 = 0))
        /\ env'.ticksSent = env.ticksSent => obs'.quarterFlip = obs.quarterFlip
        /\ (env'.lastCall # env.lastCall /\ env'.lastCall.op = "midiStart") =>
              (clockCount' = 0 /\ detectedBPM' = detectedBPM) ]_vars

\* C24 witness: MIDI Start came after two ticks; the 24th tick after it, the
\* 26th in all, has signalled the first quarter note.
C24_Witness ==
    /\ env.lastCall.op = "midiStart"
    /\ env.sinceStart = 24
    /\ env.ticksSent = 26
    /\ clockCount = 24
    /\ obs.quarterFlip

\* C25: the expiry of the watchdog clears the interval window: while fewer
\* than 25 ticks (24 intervals) of a new stream have come in since the expiry,
\* detectedBPM stays 0.
C25_FreshAfterExpiry ==
    (obs.expired /\ obs.ticksSinceExpiry \in 1..24) => detectedBPM = 0

\* What the expiry leaves behind: the window and the time of the last tick.
ExpiryKeepsWindow ==
    [][ (~obs.expired /\ obs'.expired) =>
          (clockTimes' = clockTimes /\ lastClockTime' = lastClockTime) ]_vars

\* ------------------------------------------------------------------ external source: specification

\* The clock under both sources: start, stop, reset and setClockSource, and the
\* handlers of the external clock (handleMidiClockStart, handleMidiClockStop,
\* handleMidiClockPulse) called at any moment.  env.sinceStart counts the calls
\* of handleMidiClockPulse since the last handleMidiClockStart.
MaxExternalCalls == 4
ExternalSteps == 3
ExternalHorizon == Ms + ExternalSteps * 125 * Ms

NextExternal ==
    \/ Advance({125 * Ms}, 0, ExternalHorizon)
    \/ PulseTimerFires
    \/ Flush
    \/ Call(MaxExternalCalls, Called(start(S), "start", 0))
    \/ Call(MaxExternalCalls, Called(stop(S), "stop", 0))
    \/ Call(MaxExternalCalls, Called(reset(S), "reset", 0))
    \/ \E source \in {"internal", "external"} :
          Call(MaxExternalCalls, Called(setClockSource(S, source), "setClockSource", 0))
    \/ Call(MaxExternalCalls,
            Called([handleMidiClockStart(S) EXCEPT !.env.sinceStart = 0],
                   "handleMidiClockStart", 0))
    \/ Call(MaxExternalCalls, Called(handleMidiClockStop(S), "handleMidiClockStop", 0))
    \/ Call(MaxExternalCalls,
            Called([handleMidiClockPulse(S) EXCEPT !.env.sinceStart = @ + 1],
                   "handleMidiClockPulse", 0))

SpecExternal == Init /\ [][NextExternal]_vars

\* the step is this call
IsCall(op) == env'.lastCall # env.lastCall /\ env'.lastCall.op = op

PulseOnEveryTick ==
    [][ (IsCall("handleMidiClockPulse") /\ clockSettings.source = "external"
           /\ clockState.isRunning)
        => (lastPulse' # NoPulse /\ lastPulse'.timestamp = now) ]_vars

\* C28: while the clock source is external the ClockService does not schedule
\* itself: once the effects have run, no pulse timer is pending, after start()
\* under the external source as well as after setClockSource('external') on a
\* running internal clock.
C28_NoTimerWhenExternal ==
    (clockSettings.source = "external" /\ flushDue = NoTime) => PulseTimers = {}

\* What holds: start() under the external source arms no timer.
StartExternalArmsNone ==
    [][ (IsCall("start") /\ clockSettings.source = "external") => timers' = timers ]_vars

\* C29: handleMidiClockStart and handleMidiClockStop change
\* ClockState.isRunning only with the external source: start sets it true,
\* stop sets it false and records pausedTime = now - startTime.  With the
\* internal source they and handleMidiClockPulse leave ClockState, startTime
\* and pausedTime as they are and emit no pulse.
C29_ExternalHandlersGuarded ==
    [][ /\ (IsCall("handleMidiClockStart") /\ clockSettings.source = "external")
              => clockState'.isRunning
        /\ (IsCall("handleMidiClockStop") /\ clockSettings.source = "external")
              => (~clockState'.isRunning /\ pausedTime' = now - startTime)
        /\ ((IsCall("handleMidiClockStart") \/ IsCall("handleMidiClockStop")
                \/ IsCall("handleMidiClockPulse"))
             /\ clockSettings.source = "internal")
              => (clockState' = clockState /\ startTime' = startTime
                  /\ pausedTime' = pausedTime /\ lastPulse' = lastPulse
                  /\ timers' = timers) ]_vars

\* C29 witness: the internal clock runs and has pulsed; handleMidiClockStop,
\* the last call, has left it running.
C29_Witness ==
    /\ env.lastCall.op = "handleMidiClockStop"
    /\ clockSettings.source = "internal"
    /\ clockState.isRunning
    /\ lastPulse # NoPulse
    /\ pausedTime = 0

\* The external case is reached as well: handleMidiClockStop has stopped a
\* clock that handleMidiClockStart had started earlier.
ExternalStopRecorded ==
    /\ env.lastCall.op = "handleMidiClockStop"
    /\ clockSettings.source = "external"
    /\ ~clockState.isRunning
    /\ pausedTime >= 125 * Ms

\* C30: with the external source, once handleMidiClockStart has set
\* isRunning = true the clock stays running until handleMidiClockStop, stop()
\* or reset() is called (or the source is changed): no effect run or other
\* internal step turns it off in between.
C30_StaysRunning ==
    [][ (clockSettings.source = "external" /\ clockState.isRunning
           /\ ~clockState'.isRunning)
        => env'.lastCall.op \in {"handleMidiClockStop", "stop", "reset", "setClockSource"} ]_vars

\* What holds: a clock started by start() under the external source stays
\* running until stop(), reset(), handleMidiClockStop or a change of the source.
StartedByStartStaysRunning ==
    [][ (clockSettings.source = "external" /\ clockState.isRunning
           /\ clockSettings.isRunning /\ ~clockState'.isRunning)
        => env'.lastCall.op \in {"handleMidiClockStop", "stop", "reset", "setClockSource"} ]_vars

\* ------------------------------------------------------------------ tempo change on a running clock

\* C27: setBpm with a valid value while the internal clock is running does
\* not restart the clock.  The call itself writes the bpm of the settings and
\* leaves startTime, pausedTime, ClockState and the timers alone; the run of
\* the settings effect that follows leaves startTime, pausedTime, isRunning,
\* currentBeat and currentBar alone, cancels the pending pulse timer and arms
\* exactly one new one, due after what is left of the subdivision interval at
\* the new tempo.
C27_RescheduleNoRestart ==
    [][ /\ (IsCall("setBpm") /\ clockState.isRunning
               /\ clockSettings.source = "internal")
              => /\ clockSettings'.bpm = env'.lastCall.arg
                 /\ UNCHANGED << startTime, pausedTime, clockState, timers, intervalId >>
        /\ (flushDue # NoTime /\ flushDue' = NoTime /\ clockEffectDirty
               /\ env.lastCall.op = "setBpm" /\ clockState.isRunning
               /\ clockSettings.isRunning /\ clockSettings.source = "internal")
              => LET interval == (((60000 * Ms) \div clockSettings.bpm) * 4)
                                     \div clockState.subdivision
                     left == interval - ((now - lastPulseTime) % interval)
                     delay == IF left < 10 * Ms THEN 10 * Ms ELSE left
                 IN  /\ UNCHANGED << startTime, pausedTime, clockState >>
                     /\ Cardinality(PulseTimers') = 1
                     /\ \A t \in PulseTimers' :
                           /\ t.id = intervalId'
                           /\ t.due = now + (delay \div Ms) * Ms ]_vars

\* C27 witness: the clock was started at 120 bpm and has pulsed; setBpm(150)
\* was called, the effect has run, and the one pending timer is due at the
\* next sixteenth of 100 ms counted from the last pulse.
C27_Witness ==
    /\ env.lastCall.op = "setBpm"
    /\ clockSettings.bpm = 150
    /\ clockState.isRunning
    /\ lastPulse # NoPulse
    /\ flushDue = NoTime
    /\ pausedTime = 0
    /\ \E t \in PulseTimers : t.due = lastPulseTime + 100 * Ms /\ t.due > now

\* ------------------------------------------------------------------ external clock: Stop and the watchdog

\* the pending watchdog timers
WatchdogTimers == {t \in timers : t.kind = "watchdog"}

\* the estimator at rest: not receiving, no estimate, no watchdog pending
AtRest == ~isReceivingClock /\ detectedBPM = 0 /\ WatchdogTimers = {}

\* C31: after a MIDI Stop (0xFC) isReceivingClock is false, detectedBPM is 0
\* and no watchdog timer is pending, and these stay as they are until the next
\* clock tick (0xF8) arrives: the Stop step ends at rest, and every step from
\* rest that is not a tick ends at rest.
C31_StopAtRest ==
    [][ /\ (env'.lastCall # env.lastCall /\ env'.lastCall.op = "midiStop") => AtRest'
        /\ (AtRest /\ env'.ticksSent = env.ticksSent) => AtRest' ]_vars

\* C31 witness: the device sent enough ticks for an estimate, Stop came, and
\* 2000 ms after the last tick the estimator is still at rest with the watchdog
\* cancelled by the Stop (clockTimeout is null).
C31_Witness ==
    /\ env.lastCall.op = "midiStop"
    /\ Len(clockTimes) = 24
    /\ now - lastClockTime >= 2000 * Ms
    /\ clockTimeout = NoTimer
    /\ AtRest

\* C32: while successive ticks arrive less than 2000 ms apart the watchdog
\* does not fire: isReceivingClock goes from true to false only by a Stop
\* message or when 2000 ms or more have passed since the last tick.  At most
\* one watchdog timer is pending at any time: after a tick it is the one
\* clockTimeout names, due 2000 ms after the tick.
C32_WatchdogReset ==
    [][ /\ Cardinality(WatchdogTimers') <= 1
        /\ (env'.ticksSent # env.ticksSent)
              => /\ isReceivingClock'
                 /\ WatchdogTimers' = {t \in timers' : t.id = clockTimeout'}
                 /\ \A t \in WatchdogTimers' : t.due = now + 2000 * Ms
                 /\ \A t \in WatchdogTimers : t \notin timers'
        /\ (isReceivingClock /\ ~isReceivingClock' /\ ~IsCall("midiStop"))
              => now - lastClockTime >= 2000 * Ms ]_vars

\* C32 witness: the device paused for a second and went on; the gap is in the
\* window of intervals, the estimator is still receiving and one watchdog is
\* pending.
C32_Witness ==
    /\ \E i \in 1..Len(clockTimes) : clockTimes[i] >= 1000 * Ms /\ clockTimes[i] < 2000 * Ms
    /\ isReceivingClock
    /\ ~obs.expired
    /\ Cardinality(WatchdogTimers) = 1

\* ------------------------------------------------------------------ the gates of the dispatch

\* The three origins of a dispatch with the playback flags, the clock source
\* and the clock changed in every order: the internal clock pulses a sixteenth
\* apart, the 'midiQuarterNote' event reaches its listener, manualTrigger is
\* called.
MaxGateCalls == 4
GateSteps == 5
GateHorizon == Ms + GateSteps * 125 * Ms

NextGate ==
    \/ Advance({125 * Ms}, 0, GateHorizon)
    \/ PulseTimerFires
    \/ Flush
    \/ Call(MaxGateCalls, Called(manualTrigger(S), "manualTrigger", 0))
    \/ Call(MaxGateCalls, Called(quarterNoteListener(S), "midiQuarterNote", 0))
    \/ Call(MaxGateCalls, Called(enablePlayback(S), "enablePlayback", 0))
    \/ Call(MaxGateCalls, Called(disablePlayback(S), "disablePlayback", 0))
    \/ Call(MaxGateCalls, Called(startPlayback(S), "startPlayback", 0))
    \/ Call(MaxGateCalls, Called(stopPlayback(S), "stopPlayback", 0))
    \/ Call(MaxGateCalls, Called(stop(S), "stop", 0))
    \/ \E source \in {"internal", "external"} :
          Call(MaxGateCalls, Called(setClockSource(S, source), "setClockSource", 0))

SpecGate == Init /\ [][NextGate]_vars

\* the step calls triggerPlayback
Dispatched == obs'.sentFlip # obs.sentFlip \/ obs'.triggerCount # obs.triggerCount

\* C33: a dispatch by the pulse listener happens only in a run of the effect
\* with playback enabled and playing, the internal source, a pulse and the
\* clock running; a dispatch by the 'midiQuarterNote' listener only with
\* playback playing and enabled; manualTrigger dispatches exactly when
\* playback is enabled, playing or not.
C33_DispatchGate ==
    [][ /\ (Dispatched /\ obs'.lastTrigger.src = "pulse")
              => /\ flushDue # NoTime /\ flushDue' = NoTime
                 /\ playbackState.isEnabled /\ playbackState.isPlaying
                 /\ clockSettings.source = "internal"
                 /\ lastPulse # NoPulse
                 /\ clockState'.isRunning
        /\ (Dispatched /\ obs'.lastTrigger.src = "quarterNote")
              => /\ IsCall("midiQuarterNote")
                 /\ playbackState.isEnabled /\ playbackState.isPlaying
        /\ (Dispatched /\ obs'.lastTrigger.src = "manual") => IsCall("manualTrigger")
        /\ IsCall("manualTrigger")
              => ((Dispatched /\ obs'.lastTrigger.src = "manual") <=> playbackState.isEnabled) ]_vars

\* C33 witness: manualTrigger has dispatched with playback enabled and not
\* playing.
C33_Witness ==
    /\ env.lastCall.op = "manualTrigger"
    /\ obs.lastTrigger.src = "manual"
    /\ obs.lastTrigger.at = now
    /\ playbackState.isEnabled
    /\ ~playbackState.isPlaying

\* The pulse listener has dispatched for the pulse of the second quarter note.
GatePulseDispatched ==
    /\ obs.lastTrigger.src = "pulse"
    /\ obs.lastTrigger.pulse # NoPulse
    /\ obs.lastTrigger.pulse.beat = 2

\* The 'midiQuarterNote' listener has dispatched with the external source.
GateQuarterNoteDispatched ==
    /\ obs.lastTrigger.src = "quarterNote"
    /\ clockSettings.source = "external"

\* ------------------------------------------------------------------ the delay of the next pulse

\* the step is a firing of the pulse timer that emitted a pulse and armed the next timer
PulseFired == lastPulse' # lastPulse /\ clockState'.isRunning /\ PulseTimers' # {}

\* C34: after an internal pulse fired at the elapsed time E = now - startTime
\* the next firing is scheduled after max(5, msPerSubdivision - (E mod
\* msPerSubdivision)) ms, at the next subdivision boundary counted from
\* startTime, not a fixed period after the firing.
C34_NextAtBoundary ==
    [][ PulseFired =>
          LET interval == millisecondsPerSubdivision(S)
              left == interval - ((now - startTime) % interval)
              delay == IF left < 5 * Ms THEN 5 * Ms ELSE left
          IN  \A t \in PulseTimers' : t.due = now + (delay \div Ms) * Ms ]_vars

\* What scheduleNextPulse does after a pulse: generatePulse has just set
\* lastPulseTime to now, so the next firing is one whole subdivision interval
\* (10 ms at least) after this one, however late this one was.
NextAfterFixedPeriod ==
    [][ PulseFired =>
          LET interval == millisecondsPerSubdivision(S)
              delay == IF interval < 10 * Ms THEN 10 * Ms ELSE interval
          IN  \A t \in PulseTimers' : t.due = now + (delay \div Ms) * Ms ]_vars

\* ------------------------------------------------------------------ delivery of the pulses

\* C35: every pulse is delivered to the pulse listener before anything
\* replaces it: once the effects have run, a pulse on a quarter-note boundary
\* that was emitted with playback enabled and playing has been dispatched.
C35_PulseDelivered ==
    (/\ flushDue = NoTime
     /\ lastPulse # NoPulse
     /\ obs.emittedWhilePlaying
     /\ shouldTrigger(lastPulse, clockState.subdivision))
    => obs.pulseTriggers >= 1

\* What holds: the listener runs in the flush of the effects, after the pulse,
\* and dispatches for such a pulse when it still finds playback enabled and
\* playing, the internal source and the clock running at that moment.
PulseDeliveredIfStillPlaying ==
    [][ (/\ flushDue # NoTime /\ flushDue' = NoTime
         /\ playbackEffectDirty
         /\ lastPulse # NoPulse
         /\ shouldTrigger(lastPulse, clockState.subdivision)
         /\ clockSettings.source = "internal"
         /\ clockSettings.isRunning /\ clockState.isRunning
         /\ playbackState.isEnabled /\ playbackState.isPlaying)
        => obs'.pulseTriggers >= 1 ]_vars

\* ------------------------------------------------------------------ the lab's registry: unknown ids

\* update, remove and find by id on the lab's two lists, with the ids of the
\* loaded configs (1 and 2), ids that were removed before and an id that was
\* never handed out.
MaxRegistryCalls == 4
RegistryIds == 1..3

NextRegistry ==
    \/ Flush
    \/ \E id \in RegistryIds, e \in BOOLEAN :
          Call(MaxRegistryCalls, Called(updateNoteConfig(S, id, [enabled |-> e]),
                                        "updateNoteConfig", id))
    \/ \E id \in RegistryIds :
          Call(MaxRegistryCalls, Called(removeNoteConfig(S, id), "removeNoteConfig", id))
    \/ \E id \in RegistryIds, e \in BOOLEAN :
          Call(MaxRegistryCalls, Called(updateControlConfig(S, id, [enabled |-> e]),
                                        "updateControlConfig", id))
    \/ \E id \in RegistryIds :
          Call(MaxRegistryCalls, Called(removeControlConfig(S, id), "removeControlConfig", id))

SpecRegistry == InitLab /\ [][NextRegistry]_vars

\* the ids in a list of configs
IdsOf(configs) == {configs[i].id : i \in 1..Len(configs)}

\* C36: updating or removing an id that is not in the list leaves both lists
\* of configs as they are, and getNoteConfig / getControlConfig of an id that
\* is not in the list is undefined.
C36_UnknownIdNoOp ==
    [][ /\ ((IsCall("updateNoteConfig") \/ IsCall("removeNoteConfig"))
             /\ env'.lastCall.arg \notin IdsOf(noteConfigs))
              => (noteConfigs' = noteConfigs /\ controlConfigs' = controlConfigs)
        /\ ((IsCall("updateControlConfig") \/ IsCall("removeControlConfig"))
             /\ env'.lastCall.arg \notin IdsOf(controlConfigs))
              => (noteConfigs' = noteConfigs /\ controlConfigs' = controlConfigs)
        /\ \A id \in RegistryIds :
              /\ id \notin IdsOf(noteConfigs') => getNoteConfig(S, id)' = Undefined
              /\ id \notin IdsOf(controlConfigs') => getControlConfig(S, id)' = Undefined ]_vars

\* C36 witness: note config 1 was removed, and updateNoteConfig(1, ...) was
\* called afterwards; the list still holds config 2 alone, as loaded.
C36_Witness ==
    /\ env.lastCall.op = "updateNoteConfig"
    /\ env.lastCall.arg = 1
    /\ << "noteConfig", 1 >> \in obs.deleted
    /\ noteConfigs = Tail(LabNoteConfigs)
    /\ controlConfigs = StoredControlConfigs

\* ------------------------------------------------------------------ transport failures

\* The lab of SpecLab (an enabled and a disabled note config, an enabled
\* control config) dispatching by the pulse listener, manualTrigger and the
\* 'midiQuarterNote' event, while the MIDI output is deselected, fails at
\* send(), or works.
MaxTransportCalls == 4
TransportPulses == 5
TransportHorizon == Ms + TransportPulses * 125 * Ms
Outputs == {"ok", "none", "throws"}

NextTransport ==
    \/ Advance({}, 0, TransportHorizon)
    \/ PulseTimerFires
    \/ NoteOffTimerFires
    \/ Flush
    \/ \E o \in Outputs :
          Call(MaxTransportCalls, Called([S EXCEPT !.env.output = o], "selectOutput", 0))
    \/ Call(MaxTransportCalls, Called(enablePlayback(S), "enablePlayback", 0))
    \/ Call(MaxTransportCalls, Called(startPlayback(S), "startPlayback", 0))
    \/ Call(MaxTransportCalls, Called(manualTrigger(S), "manualTrigger", 0))
    \/ Call(MaxTransportCalls, Called(quarterNoteListener(S), "midiQuarterNote", 0))
    \/ \E i \in DOMAIN noteConfigs, e \in BOOLEAN :
          Call(MaxTransportCalls,
               Called(updateNoteConfig(S, noteConfigs[i].id, [enabled |-> e]),
                      "updateNoteConfig", noteConfigs[i].id))

SpecTransport == InitLab /\ [][NextTransport]_vars

\* how many configs of a list are enabled
EnabledCount(configs) == Cardinality({i \in 1..Len(configs) : configs[i].enabled})

\* C37: a MIDI send that fails during a dispatch (no output selected, or
\* output.send throws) stops nothing: the playback flags are as before, the
\* dispatch still calls playNote for every enabled note config and
\* sendControlChange for every enabled control config and completes with the
\* counts of both, and, in a dispatch outside a run of the clock's own effect,
\* ClockState, the clock settings and the pulse timer are as before.
C37_SendFailureNoOp ==
    [][ (Dispatched /\ env.output # "ok") =>
          /\ playbackState'.isEnabled = playbackState.isEnabled
          /\ playbackState'.isPlaying = playbackState.isPlaying
          /\ clockSettings' = clockSettings
          /\ obs'.lastTrigger.at = now
          /\ obs'.lastTrigger.noteCount = EnabledCount(noteConfigs)
          /\ obs'.lastTrigger.controlCount = EnabledCount(controlConfigs)
          /\ Len(obs'.lastTrigger.calls) = EnabledCount(noteConfigs) + EnabledCount(controlConfigs)
          /\ obs'.failedSends = EnabledCount(noteConfigs) + EnabledCount(controlConfigs)
          /\ obs'.sounding = obs.sounding
          /\ ~clockEffectDirty
                => (clockState' = clockState /\ PulseTimers' = PulseTimers
                    /\ intervalId' = intervalId) ]_vars

\* C37 witness: the pulse listener dispatched for the pulse of the second
\* quarter note while output.send threw; both sends of the dispatch (a note, a
\* control change) failed, the clock is running with its timer pending and
\* playback is still playing.
C37_Witness ==
    /\ env.output = "throws"
    /\ obs.lastTrigger.src = "pulse"
    /\ obs.lastTrigger.pulse.beat = 2
    /\ obs.failedSends = 2
    /\ Len(obs.lastTrigger.calls) = 2
    /\ playbackState.isPlaying /\ playbackState.isEnabled
    /\ clockState.isRunning
    /\ Cardinality(PulseTimers) = 1

\* The manual dispatch with no output selected is reached as well.
ManualWithoutOutput ==
    /\ env.output = "none"
    /\ env.lastCall.op = "manualTrigger"
    /\ obs.lastTrigger.src = "manual"
    /\ obs.failedSends = 2

\* ------------------------------------------------------------------ the running flags of the internal clock

\* The internal clock switched on and off from both sides: ClockService.start,
\* stop and reset and SettingsService.startClock, stopClock and toggleClock in
\* every order, with effect runs and firings of the pulse timer (up to
\* ClockLate ms late) in between.
MaxRunningCalls == 4
RunningSteps == 3
RunningHorizon == Ms + RunningSteps * 125 * Ms

NextRunning ==
    \/ Advance({125 * Ms}, ClockLate * Ms, RunningHorizon)
    \/ PulseTimerFires
    \/ Flush
    \/ Call(MaxRunningCalls, Called(start(S), "start", 0))
    \/ Call(MaxRunningCalls, Called(stop(S), "stop", 0))
    \/ Call(MaxRunningCalls, Called(reset(S), "reset", 0))
    \/ Call(MaxRunningCalls, Called(startClock(S), "startClock", 0))
    \/ Call(MaxRunningCalls, Called(stopClock(S), "stopClock", 0))
    \/ Call(MaxRunningCalls, Called(toggleClock(S), "toggleClock", 0))

SpecRunning == Init /\ [][NextRunning]_vars

\* C38: with the internal source, whenever no effect run is outstanding,
\* ClockState.isRunning equals the isRunning flag of the settings, and a pulse
\* timer is pending exactly when they are true.
C38_RunningFlagsAgree ==
    (clockSettings.source = "internal" /\ flushDue = NoTime) =>
        /\ clockState.isRunning = clockSettings.isRunning
        /\ (PulseTimers # {}) = clockState.isRunning

\* C38 witness: the clock was started through the settings (toggleClock), has
\* pulsed, was stopped by ClockService.stop() and started again by
\* SettingsService.startClock(); the effect has run and the timer is pending.
C38_Witness ==
    /\ env.lastCall.op = "startClock"
    /\ flushDue = NoTime
    /\ clockState.isRunning /\ clockSettings.isRunning
    /\ lastPulse # NoPulse
    /\ pausedTime > 0
    /\ Cardinality(PulseTimers) = 1

\* The stopped side is reached as well: stopClock() has stopped a clock that
\* had pulsed, and no timer is pending.
StoppedThroughSettings ==
    /\ env.lastCall.op = "stopClock"
    /\ flushDue = NoTime
    /\ ~clockState.isRunning /\ ~clockSettings.isRunning
    /\ lastPulse # NoPulse
    /\ PulseTimers = {}

\* ------------------------------------------------------------------ saving the lab state

\* Mutations of the lab (the enabled flag of a note config set or cleared),
\* the auto-save timer, saveState() called from outside, and the storage
\* answering the waiting calls at any later moment, in any order.
MaxSaveCalls == 3
MaxSaving == 2
SaveSteps == 2
SaveHorizon == Ms + SaveSteps * 2000 * Ms

SaveState ==
    /\ Len(saving) < MaxSaving
    /\ Call(MaxSaveCalls, Called(saveStateBegins(S), "saveState", 0))

AutoSaveBegins ==
    /\ Len(saving) < MaxSaving
    /\ AutoSaveTimerFires

StorageWrites ==
    \E i \in 1..Len(saving) : ~saving[i].written /\ Commit(saveStateWrites(S, i))

SaveStateCompletes ==
    \E i \in 1..Len(saving) : saving[i].written /\ Commit(saveStateCompletes(S, i))

NextSave ==
    \/ Advance({}, 0, SaveHorizon)
    \/ Flush
    \/ AutoSaveBegins
    \/ SaveState
    \/ StorageWrites
    \/ SaveStateCompletes
    \/ \E i \in DOMAIN noteConfigs, e \in BOOLEAN :
          Call(MaxSaveCalls, Called(updateNoteConfig(S, noteConfigs[i].id, [enabled |-> e]),
                                    "updateNoteConfig", noteConfigs[i].id))

SpecSave == InitLab /\ [][NextSave]_vars

\* the pending auto-save timers
AutoSaveTimers == {t \in timers : t.kind = "autoSave"}

\* C39: a mutation is not lost.  When no saveState() call is waiting for the
\* storage and the stored lab state differs from the one in memory,
\* hasUnsavedChanges is true or an auto-save timer is pending (also when the
\* mutation came while a saveState() call was waiting).
C39_MutationNotLost ==
    (saving = << >> /\ storage # LabSnapshot(S)) => (isDirty \/ AutoSaveTimers # {})

\* What holds: every mutation leaves hasUnsavedChanges true and exactly one
\* auto-save timer pending, due 2000 ms later.
DirtyAfterMutation ==
    [][ IsCall("updateNoteConfig")
        => /\ isDirty'
           /\ AutoSaveTimers' = {t \in timers' : t.id = autoSaveTimer'}
           /\ \A t \in AutoSaveTimers' : t.due = now + 2000 * Ms
           /\ Cardinality(AutoSaveTimers') = 1 ]_vars

\* What holds: every saveState() call that gets its answer from the storage
\* clears hasUnsavedChanges and the auto-save timer, whatever happened while it
\* waited.
SaveClearsWhatever ==
    [][ Len(saving') < Len(saving) => (~isDirty' /\ AutoSaveTimers' = {}) ]_vars

\* ------------------------------------------------------------------ timing constants

\* The tempo and the subdivision set through their setters, with arguments in
\* and out of range (the bpm in tenths, as in SpecTempo).
MaxTimingCalls == 3
TimingSubdivisions == {0, 4, 8, 16, 32, 64}

NextTiming ==
    \/ Flush
    \/ \E tenths \in BpmTenths :
          Call(MaxTimingCalls, Called(settingsSetBpmTenths(S, tenths), "setBpm", tenths))
    \/ \E subdivision \in TimingSubdivisions :
          Call(MaxTimingCalls,
               Called(setSubdivision(S, subdivision), "setSubdivision", subdivision))

SpecTiming == Init /\ [][NextTiming]_vars

\* q is a / b cut to a whole number of microseconds
IsQuotient(q, a, b) == q * b <= a /\ a < (q + 1) * b

\* C40: millisecondsPerBeat is 60000 / bpm (500 ms at 120 bpm) and
\* millisecondsPerSubdivision is millisecondsPerBeat / (subdivision / 4), not
\* below 5 ms; in every configuration the setters allow the bpm is in 60..200
\* and the subdivision one of 4, 8, 16, 32, so that neither the fallback to 120
\* bpm, nor the fallback to sixteenths, nor the clamp to 5 ms is taken.
C40_TimingConstants ==
    LET bpm == currentBpm(S)
        subdivision == clockState.subdivision
    IN  /\ bpm \in 60..200
        /\ subdivision \in {4, 8, 16, 32}
        /\ IsQuotient(millisecondsPerBeat(S), 60000 * Ms, bpm)
        /\ bpm = 120 => millisecondsPerBeat(S) = 500 * Ms
        /\ IsQuotient(millisecondsPerSubdivision(S), millisecondsPerBeat(S) * 4, subdivision)
        /\ millisecondsPerSubdivision(S) > 5 * Ms

\* C40 witness: the fastest configuration, 200 bpm in thirty-seconds: 300 ms a
\* beat, 37.5 ms a subdivision.
C40_Witness ==
    /\ currentBpm(S) = 200
    /\ clockState.subdivision = 32
    /\ millisecondsPerBeat(S) = 300 * Ms
    /\ millisecondsPerSubdivision(S) = 37500

====
